---------------------------- MODULE Spec2Model ----------------------------
(***************************************************************************)
(* The chess rules engine of chess_logic.py (Piece classes, Board,         *)
(* ChessGame) as a state machine.  A piece object is the record            *)
(* [kind, color, has_moved]; Python's None in a board cell is NoPiece; a   *)
(* square is the pair <<row, col>> with row 0 Black's back rank and col 0  *)
(* the a-file; a list of moves is a sequence in the order the code builds  *)
(* it.                                                                     *)
(***************************************************************************)
EXTENDS Integers, Sequences, FiniteSets, TLC

VARIABLES
    board,              \* Board.board: 8x8 grid of pieces, board[r][c]
    move_history,       \* Board.move_history: one entry per move made
    current_player,     \* ChessGame.current_player: "W" or "B"
    castling_rights,    \* ChessGame.castling_rights[color][side]
    en_passant_target,  \* ChessGame.en_passant_target: a square or NoSquare
    halfmove_clock,     \* ChessGame.halfmove_clock
    fullmove_number,    \* ChessGame.fullmove_number
    status_message,     \* ChessGame.status_message
    game_over_message,  \* ChessGame.game_over_message: a string or NoMessage
    ret,                \* the value the most recent process_move returned
    script,             \* the caller: the calls it has still to replay
    calls_left,         \* the caller: the calls it may make after them
    reads,              \* the caller: the queries it made since its last
                        \* process_move call, each with what it returned
    board_state_seen,   \* the caller: the grid as get_board_state() showed
                        \* it when the caller last called it, or NoGrid
    call_stack          \* the calls in progress, innermost last: for each
                        \* the function, the call site it has reached and
                        \* the calls it has made there

game == <<board, move_history, current_player, castling_rights,
          en_passant_target, halfmove_clock, fullmove_number,
          status_message, game_over_message>>

vars == <<board, move_history, current_player, castling_rights,
          en_passant_target, halfmove_clock, fullmove_number,
          status_message, game_over_message, ret, script, calls_left,
          reads, board_state_seen, call_stack>>

\* ------------------------------------------------------------ values

\* The entry of move_history Board.make_move appended last.
last_move == move_history[Len(move_history)]

\* The caller has not called get_board_state().
NoGrid == << >>

\* Python's None in a board cell, and as a captured piece.
NoPiece == [kind |-> "None", color |-> "None", has_moved |-> FALSE]

\* Python's None as en_passant_target.
NoSquare == << >>

\* Python's None as game_over_message, as promotion_choice_char, as a
\* call's return value before any call.
NoMessage == "None"
NoChoice == "None"

\* Piece.__init__: a freshly created piece has has_moved False.
Piece(color, symbol_char) ==
    [kind |-> symbol_char, color |-> color, has_moved |-> FALSE]

Rows == 0 .. 7

Squares == Rows \X Rows

InRange(r, c) == 0 <= r /\ r <= 7 /\ 0 <= c /\ c <= 7

Abs(x) == IF x < 0 THEN -x ELSE x

opponent(color) == IF color = "W" THEN "B" ELSE "W"

\* The sequences of a sequence of sequences, joined in order.
RECURSIVE Concat(_)
Concat(ss) == IF ss = << >> THEN << >> ELSE Head(ss) \o Concat(Tail(ss))

\* Python's `x in list`.
InList(x, list) == \E i \in 1 .. Len(list) : list[i] = x

\* ------------------------------------------------------------ pieces

\* Pawn.get_possible_moves: the list for one dc of the capture loop.
PawnCapture(piece, r, c, dc, board_state, ep) ==
    LET direction == IF piece.color = "W" THEN -1 ELSE 1
        nr == r + direction
        nc == c + dc
    IN  IF InRange(nr, nc)
        THEN (IF board_state[nr][nc] # NoPiece
                 /\ board_state[nr][nc].color # piece.color
              THEN << <<nr, nc>> >> ELSE << >>)
             \o (IF ep # NoSquare /\ <<nr, nc>> = ep
                 THEN << <<nr, nc>> >> ELSE << >>)
        ELSE << >>

Pawn_get_possible_moves(piece, r, c, board_state, ep) ==
    LET direction == IF piece.color = "W" THEN -1 ELSE 1
        r1 == r + direction
        r2 == r + 2 * direction
        forward ==
            IF 0 <= r1 /\ r1 <= 7 /\ board_state[r1][c] = NoPiece
            THEN << <<r1, c>> >>
                 \o (IF ~piece.has_moved /\ 0 <= r2 /\ r2 <= 7
                        /\ board_state[r2][c] = NoPiece
                        /\ board_state[r1][c] = NoPiece
                     THEN << <<r2, c>> >> ELSE << >>)
            ELSE << >>
    IN  forward
        \o PawnCapture(piece, r, c, -1, board_state, ep)
        \o PawnCapture(piece, r, c, 1, board_state, ep)

\* The inner loop of Rook/Bishop.get_possible_moves from step i on: slide
\* until the edge, an own piece (excluded) or an enemy piece (included).
RECURSIVE Slide(_, _, _, _, _, _, _)
Slide(color, r, c, dr, dc, i, board_state) ==
    LET nr == r + dr * i
        nc == c + dc * i
    IN  IF i > 7 \/ ~InRange(nr, nc) THEN << >>
        ELSE IF board_state[nr][nc] = NoPiece
             THEN << <<nr, nc>> >>
                  \o Slide(color, r, c, dr, dc, i + 1, board_state)
        ELSE IF board_state[nr][nc].color # color THEN << <<nr, nc>> >>
        ELSE << >>

RookDirections == << <<0, 1>>, <<0, -1>>, <<1, 0>>, <<-1, 0>> >>

BishopDirections == << <<1, 1>>, <<1, -1>>, <<-1, 1>>, <<-1, -1>> >>

Rook_get_possible_moves(color, r, c, board_state) ==
    Concat([i \in 1 .. 4 |->
        Slide(color, r, c, RookDirections[i][1], RookDirections[i][2], 1,
              board_state)])

Bishop_get_possible_moves(color, r, c, board_state) ==
    Concat([i \in 1 .. 4 |->
        Slide(color, r, c, BishopDirections[i][1], BishopDirections[i][2], 1,
              board_state)])

\* Queen.get_possible_moves as it would be if it returned the Rook's
\* moves only.
Queen_get_possible_moves_straight_only(color, r, c, board_state) ==
    Rook_get_possible_moves(color, r, c, board_state)

Queen_get_possible_moves(color, r, c, board_state) ==
    Rook_get_possible_moves(color, r, c, board_state)
    \o Bishop_get_possible_moves(color, r, c, board_state)

\* The fixed-offset loop of Knight/King.get_possible_moves: in-range cells
\* that are empty or hold a piece of the other color.
StepMoves(color, r, c, offsets, board_state) ==
    Concat([i \in 1 .. Len(offsets) |->
        LET nr == r + offsets[i][1]
            nc == c + offsets[i][2]
        IN  IF InRange(nr, nc)
               /\ (board_state[nr][nc] = NoPiece
                   \/ board_state[nr][nc].color # color)
            THEN << <<nr, nc>> >> ELSE << >>])

\* knight_moves as it would be with the sign of one offset dropped.
knight_moves_sign_dropped ==
    << <<2, 1>>, <<2, -1>>, <<2, 1>>, <<-2, -1>>,
       <<1, 2>>, <<1, -2>>, <<-1, 2>>, <<-1, -2>> >>

knight_moves == << <<2, 1>>, <<2, -1>>, <<-2, 1>>, <<-2, -1>>,
                   <<1, 2>>, <<1, -2>>, <<-1, 2>>, <<-1, -2>> >>

king_moves == << <<0, 1>>, <<0, -1>>, <<1, 0>>, <<-1, 0>>,
                 <<1, 1>>, <<1, -1>>, <<-1, 1>>, <<-1, -1>> >>

Knight_get_possible_moves(color, r, c, board_state) ==
    StepMoves(color, r, c, knight_moves, board_state)

\* ------------------------------------------------------------- board

back_rank_pieces == <<"R", "N", "B", "Q", "K", "B", "N", "R">>

\* Board.__init__ and Board.setup_pieces.
setup_pieces ==
    [r \in Rows |-> [c \in Rows |->
        CASE r = 0 -> Piece("B", back_rank_pieces[c + 1])
          [] r = 1 -> Piece("B", "P")
          [] r = 6 -> Piece("W", "P")
          [] r = 7 -> Piece("W", back_rank_pieces[c + 1])
          [] OTHER -> NoPiece]]

get_piece(board_state, r, c) ==
    IF InRange(r, c) THEN board_state[r][c] ELSE NoPiece

\* Python's str(promotion_choice_char).upper() for the choices modelled.
Upper(ch) ==
    CASE ch = "q" -> "Q" [] ch = "r" -> "R" [] ch = "b" -> "B"
      [] ch = "n" -> "N" [] ch = "None" -> "NONE" [] OTHER -> ch

\* promo_map as it would be if the choice were never looked up.
promo_map_queen_only(ch) == "Q"

\* promo_map.get(..., Queen) in Board.make_move.
promo_map(ch) == IF Upper(ch) \in {"Q", "R", "B", "N"} THEN Upper(ch) ELSE "Q"


\* Board.make_move as it would be if an en-passant capture left the
\* captured pawn on the board.
make_move_keeping_passed_pawn(board_state, from_sq, to_sq, promotion_choice_char) ==
    LET r1 == from_sq[1]
        c1 == from_sq[2]
        r2 == to_sq[1]
        c2 == to_sq[2]
        piece == board_state[r1][c1]
        is_pawn_move == piece.kind = "P"
        is_castling_move == piece.kind = "K" /\ Abs(c2 - c1) = 2
        is_en_passant_capture ==
            ~is_castling_move /\ piece.kind = "P" /\ Abs(c2 - c1) = 1
            /\ board_state[r2][c2] = NoPiece
        rook_c1_orig == IF c2 < c1 THEN 0 ELSE 7
        rook_c2_new == c1 + (IF c2 > c1 THEN 1 ELSE -1)
        rook == board_state[r1][rook_c1_orig]
        captured_piece ==
            IF is_en_passant_capture THEN board_state[r1][c2]
            ELSE board_state[r2][c2]
        is_capture == board_state[r2][c2] # NoPiece \/ is_en_passant_capture
        b1 == IF is_castling_move
              THEN [board_state EXCEPT
                       ![r1][rook_c2_new] =
                           IF rook # NoPiece
                           THEN [rook EXCEPT !.has_moved = TRUE] ELSE rook,
                       ![r1][rook_c1_orig] = NoPiece]
              ELSE board_state
        is_promotion ==
            piece.kind = "P"
            /\ ((piece.color = "W" /\ r2 = 0) \/ (piece.color = "B" /\ r2 = 7))
        promoted_piece ==
            [Piece(piece.color, promo_map(promotion_choice_char))
                EXCEPT !.has_moved = TRUE]
        final_piece == IF is_promotion THEN promoted_piece ELSE piece
        b2 == [b1 EXCEPT ![r2][c2] = [final_piece EXCEPT !.has_moved = TRUE],
                         ![r1][c1] = NoPiece]
    IN  IF piece = NoPiece
        THEN [board |-> board_state, captured_piece |-> NoPiece,
              is_pawn_move |-> FALSE, is_capture |-> FALSE,
              history |-> << >>]
        ELSE [board |-> b2, captured_piece |-> captured_piece,
              is_pawn_move |-> is_pawn_move, is_capture |-> is_capture,
              history |-> << [piece |-> [final_piece EXCEPT !.has_moved = TRUE],
                              from |-> from_sq, to |-> to_sq,
                              captured |-> captured_piece,
                              was_castling |-> is_castling_move,
                              was_ep |-> is_en_passant_capture,
                              piece_had_moved |-> final_piece.has_moved] >>]

\* make_move as it would be if the cell the piece left were not cleared.
make_move_keeping_origin(board_state, from_sq, to_sq, promotion_choice_char) ==
    LET r1 == from_sq[1]
        c1 == from_sq[2]
        r2 == to_sq[1]
        c2 == to_sq[2]
        piece == board_state[r1][c1]
        is_pawn_move == piece.kind = "P"
        is_castling_move == piece.kind = "K" /\ Abs(c2 - c1) = 2
        is_en_passant_capture ==
            ~is_castling_move /\ piece.kind = "P" /\ Abs(c2 - c1) = 1
            /\ board_state[r2][c2] = NoPiece
        rook_c1_orig == IF c2 < c1 THEN 0 ELSE 7
        rook_c2_new == c1 + (IF c2 > c1 THEN 1 ELSE -1)
        rook == board_state[r1][rook_c1_orig]
        captured_piece ==
            IF is_en_passant_capture THEN board_state[r1][c2]
            ELSE board_state[r2][c2]
        is_capture == board_state[r2][c2] # NoPiece \/ is_en_passant_capture
        b1 == IF is_castling_move
              THEN [board_state EXCEPT
                       ![r1][rook_c2_new] =
                           IF rook # NoPiece
                           THEN [rook EXCEPT !.has_moved = TRUE] ELSE rook,
                       ![r1][rook_c1_orig] = NoPiece]
              ELSE IF is_en_passant_capture
              THEN [board_state EXCEPT ![r1][c2] = NoPiece]
              ELSE board_state
        is_promotion ==
            piece.kind = "P"
            /\ ((piece.color = "W" /\ r2 = 0) \/ (piece.color = "B" /\ r2 = 7))
        promoted_piece ==
            [Piece(piece.color, promo_map(promotion_choice_char))
                EXCEPT !.has_moved = TRUE]
        final_piece == IF is_promotion THEN promoted_piece ELSE piece
        b2 == [b1 EXCEPT ![r2][c2] = [final_piece EXCEPT !.has_moved = TRUE]]
    IN  IF piece = NoPiece
        THEN [board |-> board_state, captured_piece |-> NoPiece,
              is_pawn_move |-> FALSE, is_capture |-> FALSE,
              history |-> << >>]
        ELSE [board |-> b2, captured_piece |-> captured_piece,
              is_pawn_move |-> is_pawn_move, is_capture |-> is_capture,
              history |-> << [piece |-> [final_piece EXCEPT !.has_moved = TRUE],
                              from |-> from_sq, to |-> to_sq,
                              captured |-> captured_piece,
                              was_castling |-> is_castling_move,
                              was_ep |-> is_en_passant_capture,
                              piece_had_moved |-> final_piece.has_moved] >>]

\* make_move as it would be if the castling Rook were not marked as moved.
make_move_rook_unmarked(board_state, from_sq, to_sq, promotion_choice_char) ==
    LET r1 == from_sq[1]
        c1 == from_sq[2]
        r2 == to_sq[1]
        c2 == to_sq[2]
        piece == board_state[r1][c1]
        is_pawn_move == piece.kind = "P"
        is_castling_move == piece.kind = "K" /\ Abs(c2 - c1) = 2
        is_en_passant_capture ==
            ~is_castling_move /\ piece.kind = "P" /\ Abs(c2 - c1) = 1
            /\ board_state[r2][c2] = NoPiece
        rook_c1_orig == IF c2 < c1 THEN 0 ELSE 7
        rook_c2_new == c1 + (IF c2 > c1 THEN 1 ELSE -1)
        rook == board_state[r1][rook_c1_orig]
        captured_piece ==
            IF is_en_passant_capture THEN board_state[r1][c2]
            ELSE board_state[r2][c2]
        is_capture == board_state[r2][c2] # NoPiece \/ is_en_passant_capture
        b1 == IF is_castling_move
              THEN [board_state EXCEPT
                       ![r1][rook_c2_new] =
                           rook,
                       ![r1][rook_c1_orig] = NoPiece]
              ELSE IF is_en_passant_capture
              THEN [board_state EXCEPT ![r1][c2] = NoPiece]
              ELSE board_state
        is_promotion ==
            piece.kind = "P"
            /\ ((piece.color = "W" /\ r2 = 0) \/ (piece.color = "B" /\ r2 = 7))
        promoted_piece ==
            [Piece(piece.color, promo_map(promotion_choice_char))
                EXCEPT !.has_moved = TRUE]
        final_piece == IF is_promotion THEN promoted_piece ELSE piece
        b2 == [b1 EXCEPT ![r2][c2] = [final_piece EXCEPT !.has_moved = TRUE],
                         ![r1][c1] = NoPiece]
    IN  IF piece = NoPiece
        THEN [board |-> board_state, captured_piece |-> NoPiece,
              is_pawn_move |-> FALSE, is_capture |-> FALSE,
              history |-> << >>]
        ELSE [board |-> b2, captured_piece |-> captured_piece,
              is_pawn_move |-> is_pawn_move, is_capture |-> is_capture,
              history |-> << [piece |-> [final_piece EXCEPT !.has_moved = TRUE],
                              from |-> from_sq, to |-> to_sq,
                              captured |-> captured_piece,
                              was_castling |-> is_castling_move,
                              was_ep |-> is_en_passant_capture,
                              piece_had_moved |-> final_piece.has_moved] >>]

\* make_move as it would be if the moved piece were not marked as moved.
make_move_piece_unmarked(board_state, from_sq, to_sq, promotion_choice_char) ==
    LET r1 == from_sq[1]
        c1 == from_sq[2]
        r2 == to_sq[1]
        c2 == to_sq[2]
        piece == board_state[r1][c1]
        is_pawn_move == piece.kind = "P"
        is_castling_move == piece.kind = "K" /\ Abs(c2 - c1) = 2
        is_en_passant_capture ==
            ~is_castling_move /\ piece.kind = "P" /\ Abs(c2 - c1) = 1
            /\ board_state[r2][c2] = NoPiece
        rook_c1_orig == IF c2 < c1 THEN 0 ELSE 7
        rook_c2_new == c1 + (IF c2 > c1 THEN 1 ELSE -1)
        rook == board_state[r1][rook_c1_orig]
        captured_piece ==
            IF is_en_passant_capture THEN board_state[r1][c2]
            ELSE board_state[r2][c2]
        is_capture == board_state[r2][c2] # NoPiece \/ is_en_passant_capture
        b1 == IF is_castling_move
              THEN [board_state EXCEPT
                       ![r1][rook_c2_new] =
                           IF rook # NoPiece
                           THEN [rook EXCEPT !.has_moved = TRUE] ELSE rook,
                       ![r1][rook_c1_orig] = NoPiece]
              ELSE IF is_en_passant_capture
              THEN [board_state EXCEPT ![r1][c2] = NoPiece]
              ELSE board_state
        is_promotion ==
            piece.kind = "P"
            /\ ((piece.color = "W" /\ r2 = 0) \/ (piece.color = "B" /\ r2 = 7))
        promoted_piece ==
            [Piece(piece.color, promo_map(promotion_choice_char))
                EXCEPT !.has_moved = TRUE]
        final_piece == IF is_promotion THEN promoted_piece ELSE piece
        b2 == [b1 EXCEPT ![r2][c2] = final_piece,
                         ![r1][c1] = NoPiece]
    IN  IF piece = NoPiece
        THEN [board |-> board_state, captured_piece |-> NoPiece,
              is_pawn_move |-> FALSE, is_capture |-> FALSE,
              history |-> << >>]
        ELSE [board |-> b2, captured_piece |-> captured_piece,
              is_pawn_move |-> is_pawn_move, is_capture |-> is_capture,
              history |-> << [piece |-> [final_piece EXCEPT !.has_moved = TRUE],
                              from |-> from_sq, to |-> to_sq,
                              captured |-> captured_piece,
                              was_castling |-> is_castling_move,
                              was_ep |-> is_en_passant_capture,
                              piece_had_moved |-> final_piece.has_moved] >>]

\* make_move as it would be if a pawn reaching its farthest rank were left a
\* pawn.
make_move_without_promotion(board_state, from_sq, to_sq, promotion_choice_char) ==
    LET r1 == from_sq[1]
        c1 == from_sq[2]
        r2 == to_sq[1]
        c2 == to_sq[2]
        piece == board_state[r1][c1]
        is_pawn_move == piece.kind = "P"
        is_castling_move == piece.kind = "K" /\ Abs(c2 - c1) = 2
        is_en_passant_capture ==
            ~is_castling_move /\ piece.kind = "P" /\ Abs(c2 - c1) = 1
            /\ board_state[r2][c2] = NoPiece
        rook_c1_orig == IF c2 < c1 THEN 0 ELSE 7
        rook_c2_new == c1 + (IF c2 > c1 THEN 1 ELSE -1)
        rook == board_state[r1][rook_c1_orig]
        captured_piece ==
            IF is_en_passant_capture THEN board_state[r1][c2]
            ELSE board_state[r2][c2]
        is_capture == board_state[r2][c2] # NoPiece \/ is_en_passant_capture
        b1 == IF is_castling_move
              THEN [board_state EXCEPT
                       ![r1][rook_c2_new] =
                           IF rook # NoPiece
                           THEN [rook EXCEPT !.has_moved = TRUE] ELSE rook,
                       ![r1][rook_c1_orig] = NoPiece]
              ELSE IF is_en_passant_capture
              THEN [board_state EXCEPT ![r1][c2] = NoPiece]
              ELSE board_state
        is_promotion ==
            piece.kind = "P"
            /\ ((piece.color = "W" /\ r2 = 0) \/ (piece.color = "B" /\ r2 = 7))
        promoted_piece ==
            [Piece(piece.color, promo_map(promotion_choice_char))
                EXCEPT !.has_moved = TRUE]
        final_piece == piece
        b2 == [b1 EXCEPT ![r2][c2] = [final_piece EXCEPT !.has_moved = TRUE],
                         ![r1][c1] = NoPiece]
    IN  IF piece = NoPiece
        THEN [board |-> board_state, captured_piece |-> NoPiece,
              is_pawn_move |-> FALSE, is_capture |-> FALSE,
              history |-> << >>]
        ELSE [board |-> b2, captured_piece |-> captured_piece,
              is_pawn_move |-> is_pawn_move, is_capture |-> is_capture,
              history |-> << [piece |-> [final_piece EXCEPT !.has_moved = TRUE],
                              from |-> from_sq, to |-> to_sq,
                              captured |-> captured_piece,
                              was_castling |-> is_castling_move,
                              was_ep |-> is_en_passant_capture,
                              piece_had_moved |-> final_piece.has_moved] >>]

\* Board.make_move: the grid after the move, what it returns
\* (captured_piece, is_pawn_move, is_capture), and the entry it appends to
\* move_history (the entry's promoted_to field, which nothing reads, is left
\* out).  A piece object moved to another cell is the same object, so a flag
\* set on it afterwards shows in its new cell.
make_move(board_state, from_sq, to_sq, promotion_choice_char) ==
    LET r1 == from_sq[1]
        c1 == from_sq[2]
        r2 == to_sq[1]
        c2 == to_sq[2]
        piece == board_state[r1][c1]
        is_pawn_move == piece.kind = "P"
        is_castling_move == piece.kind = "K" /\ Abs(c2 - c1) = 2
        is_en_passant_capture ==
            ~is_castling_move /\ piece.kind = "P" /\ Abs(c2 - c1) = 1
            /\ board_state[r2][c2] = NoPiece
        rook_c1_orig == IF c2 < c1 THEN 0 ELSE 7
        rook_c2_new == c1 + (IF c2 > c1 THEN 1 ELSE -1)
        rook == board_state[r1][rook_c1_orig]
        captured_piece ==
            IF is_en_passant_capture THEN board_state[r1][c2]
            ELSE board_state[r2][c2]
        is_capture == board_state[r2][c2] # NoPiece \/ is_en_passant_capture
        b1 == IF is_castling_move
              THEN [board_state EXCEPT
                       ![r1][rook_c2_new] =
                           IF rook # NoPiece
                           THEN [rook EXCEPT !.has_moved = TRUE] ELSE rook,
                       ![r1][rook_c1_orig] = NoPiece]
              ELSE IF is_en_passant_capture
              THEN [board_state EXCEPT ![r1][c2] = NoPiece]
              ELSE board_state
        is_promotion ==
            piece.kind = "P"
            /\ ((piece.color = "W" /\ r2 = 0) \/ (piece.color = "B" /\ r2 = 7))
        promoted_piece ==
            [Piece(piece.color, promo_map(promotion_choice_char))
                EXCEPT !.has_moved = TRUE]
        final_piece == IF is_promotion THEN promoted_piece ELSE piece
        b2 == [b1 EXCEPT ![r2][c2] = [final_piece EXCEPT !.has_moved = TRUE],
                         ![r1][c1] = NoPiece]
    IN  IF piece = NoPiece
        THEN [board |-> board_state, captured_piece |-> NoPiece,
              is_pawn_move |-> FALSE, is_capture |-> FALSE,
              history |-> << >>]
        ELSE [board |-> b2, captured_piece |-> captured_piece,
              is_pawn_move |-> is_pawn_move, is_capture |-> is_capture,
              history |-> << [piece |-> [final_piece EXCEPT !.has_moved = TRUE],
                              from |-> from_sq, to |-> to_sq,
                              captured |-> captured_piece,
                              was_castling |-> is_castling_move,
                              was_ep |-> is_en_passant_capture,
                              piece_had_moved |-> final_piece.has_moved] >>]

\* -------------------------------------------------------------- game
\* `self` is the part of the ChessGame object the queries read:
\* [board, en_passant_target, castling_rights].

\* ChessGame.find_king: the first King of the color in row-major order, or
\* NoSquare.
find_king(color, board_state) ==
    LET kings == {sq \in Squares :
                     board_state[sq[1]][sq[2]].kind = "K"
                     /\ board_state[sq[1]][sq[2]].color = color}
    IN  IF kings = {} THEN NoSquare
        ELSE CHOOSE sq \in kings :
                 \A o \in kings : sq[1] * 8 + sq[2] <= o[1] * 8 + o[2]

\* PieceAttacks as it would be if a pawn attacked the squares of its move
\* list, its forward steps included.
PieceAttacks_pawn_by_move_shape(r_idx, c_idx, r_target, c_target, attacker_color, b) ==
    LET piece == b[r_idx][c_idx]
        direction == IF piece.color = "W" THEN -1 ELSE 1
    IN  /\ piece # NoPiece
        /\ piece.color = attacker_color
        /\ CASE piece.kind = "P" ->
                   InList(<<r_target, c_target>>,
                          Pawn_get_possible_moves(piece, r_idx, c_idx, b,
                                                  NoSquare))
             [] piece.kind = "K" ->
                   \E i \in 1 .. Len(king_moves) :
                       /\ r_idx + king_moves[i][1] = r_target
                       /\ c_idx + king_moves[i][2] = c_target
             [] piece.kind = "R" ->
                   InList(<<r_target, c_target>>,
                          Rook_get_possible_moves(piece.color, r_idx, c_idx, b))
             [] piece.kind = "N" ->
                   InList(<<r_target, c_target>>,
                          Knight_get_possible_moves(piece.color, r_idx, c_idx, b))
             [] piece.kind = "B" ->
                   InList(<<r_target, c_target>>,
                          Bishop_get_possible_moves(piece.color, r_idx, c_idx, b))
             [] piece.kind = "Q" ->
                   InList(<<r_target, c_target>>,
                          Queen_get_possible_moves(piece.color, r_idx, c_idx, b))

\* ChessGame.is_square_attacked, the body of its loop for the piece on
\* (r_idx, c_idx).
PieceAttacks(r_idx, c_idx, r_target, c_target, attacker_color, b) ==
    LET piece == b[r_idx][c_idx]
        direction == IF piece.color = "W" THEN -1 ELSE 1
    IN  /\ piece # NoPiece
        /\ piece.color = attacker_color
        /\ CASE piece.kind = "P" ->
                   /\ r_idx + direction = r_target
                   /\ (c_idx + 1 = c_target \/ c_idx - 1 = c_target)
             [] piece.kind = "K" ->
                   \E i \in 1 .. Len(king_moves) :
                       /\ r_idx + king_moves[i][1] = r_target
                       /\ c_idx + king_moves[i][2] = c_target
             [] piece.kind = "R" ->
                   InList(<<r_target, c_target>>,
                          Rook_get_possible_moves(piece.color, r_idx, c_idx, b))
             [] piece.kind = "N" ->
                   InList(<<r_target, c_target>>,
                          Knight_get_possible_moves(piece.color, r_idx, c_idx, b))
             [] piece.kind = "B" ->
                   InList(<<r_target, c_target>>,
                          Bishop_get_possible_moves(piece.color, r_idx, c_idx, b))
             [] piece.kind = "Q" ->
                   InList(<<r_target, c_target>>,
                          Queen_get_possible_moves(piece.color, r_idx, c_idx, b))

is_square_attacked(r_target, c_target, attacker_color, b) ==
    \E r_idx \in Rows, c_idx \in Rows :
        PieceAttacks(r_idx, c_idx, r_target, c_target, attacker_color, b)

\* ChessGame.is_in_check: True when no King is found.
is_in_check(color, b) ==
    LET king_pos == find_king(color, b)
    IN  IF king_pos = NoSquare THEN TRUE
        ELSE is_square_attacked(king_pos[1], king_pos[2], opponent(color), b)

\* can_castle as it would be without the test of the squares the King
\* passes over and lands on.
can_castle_ignoring_attacks(self, color, side, board_state, check_intermediate_squares_attack) ==
    LET king_r == IF color = "W" THEN 7 ELSE 0
        king_c == 4
        king == board_state[king_r][king_c]
        rook_c_orig == IF side = "K" THEN 7 ELSE 0
        path_squares_to_check_empty ==
            IF side = "K" THEN {king_c + 1, king_c + 2}
            ELSE {king_c - 1, king_c - 2, king_c - 3}
        squares_king_traverses_for_attack_check ==
            IF side = "K" THEN {king_c + 1, king_c + 2}
            ELSE {king_c - 1, king_c - 2}
        rook == board_state[king_r][rook_c_orig]
    IN  /\ ~is_in_check(color, board_state)
        /\ king.kind = "K" /\ ~king.has_moved /\ king.color = color
        /\ side \in {"K", "Q"}
        /\ self.castling_rights[color][side]
        /\ rook.kind = "R" /\ ~rook.has_moved /\ rook.color = color
        /\ \A c_path \in path_squares_to_check_empty :
               board_state[king_r][c_path] = NoPiece

\* ChessGame.can_castle.
can_castle(self, color, side, board_state, check_intermediate_squares_attack) ==
    LET king_r == IF color = "W" THEN 7 ELSE 0
        king_c == 4
        king == board_state[king_r][king_c]
        rook_c_orig == IF side = "K" THEN 7 ELSE 0
        path_squares_to_check_empty ==
            IF side = "K" THEN {king_c + 1, king_c + 2}
            ELSE {king_c - 1, king_c - 2, king_c - 3}
        squares_king_traverses_for_attack_check ==
            IF side = "K" THEN {king_c + 1, king_c + 2}
            ELSE {king_c - 1, king_c - 2}
        rook == board_state[king_r][rook_c_orig]
    IN  /\ ~is_in_check(color, board_state)
        /\ king.kind = "K" /\ ~king.has_moved /\ king.color = color
        /\ side \in {"K", "Q"}
        /\ self.castling_rights[color][side]
        /\ rook.kind = "R" /\ ~rook.has_moved /\ rook.color = color
        /\ \A c_path \in path_squares_to_check_empty :
               board_state[king_r][c_path] = NoPiece
        /\ check_intermediate_squares_attack =>
               \A c_check \in squares_king_traverses_for_attack_check :
                   ~is_square_attacked(king_r, c_check, opponent(color),
                                       board_state)

\* King.get_possible_moves as it would be without the queenside castling
\* move.
King_get_possible_moves_kingside_only(self, piece, r, c, board_state, game_context) ==
    StepMoves(piece.color, r, c, king_moves, board_state)
    \o (IF game_context /\ ~piece.has_moved
        THEN (IF can_castle(self, piece.color, "K", board_state, FALSE)
              THEN << <<r, c + 2>> >> ELSE << >>)
        ELSE << >>)

\* King.get_possible_moves; game_context is whether a game context is
\* passed (the context itself is self).
King_get_possible_moves(self, piece, r, c, board_state, game_context) ==
    StepMoves(piece.color, r, c, king_moves, board_state)
    \o (IF game_context /\ ~piece.has_moved
        THEN (IF can_castle(self, piece.color, "K", board_state, FALSE)
              THEN << <<r, c + 2>> >> ELSE << >>)
             \o (IF can_castle(self, piece.color, "Q", board_state, FALSE)
                 THEN << <<r, c - 2>> >> ELSE << >>)
        ELSE << >>)

\* piece_moves as it would be if the game's en-passant target were not
\* passed on to Pawn.get_possible_moves.
piece_moves_without_target(self, r, c) ==
    LET b == self.board
        piece == b[r][c]
    IN  CASE piece.kind = "P" ->
                 Pawn_get_possible_moves(piece, r, c, b, NoSquare)
          [] piece.kind = "K" ->
                 King_get_possible_moves(self, piece, r, c, b, TRUE)
          [] piece.kind = "R" -> Rook_get_possible_moves(piece.color, r, c, b)
          [] piece.kind = "N" -> Knight_get_possible_moves(piece.color, r, c, b)
          [] piece.kind = "B" -> Bishop_get_possible_moves(piece.color, r, c, b)
          [] piece.kind = "Q" -> Queen_get_possible_moves(piece.color, r, c, b)
          [] OTHER -> << >>

\* The piece's get_possible_moves as ChessGame.get_all_possible_moves_for_player
\* calls it on the current board.
piece_moves(self, r, c) ==
    LET b == self.board
        piece == b[r][c]
    IN  CASE piece.kind = "P" ->
                 Pawn_get_possible_moves(piece, r, c, b, self.en_passant_target)
          [] piece.kind = "K" ->
                 King_get_possible_moves(self, piece, r, c, b, TRUE)
          [] piece.kind = "R" -> Rook_get_possible_moves(piece.color, r, c, b)
          [] piece.kind = "N" -> Knight_get_possible_moves(piece.color, r, c, b)
          [] piece.kind = "B" -> Bishop_get_possible_moves(piece.color, r, c, b)
          [] piece.kind = "Q" -> Queen_get_possible_moves(piece.color, r, c, b)
          [] OTHER -> << >>

\* ChessGame.get_all_possible_moves_for_player(color) on the current board:
\* the (from, to) pairs, row by row.
get_all_possible_moves_for_player(self, color) ==
    Concat([k \in 1 .. 64 |->
        LET r == (k - 1) \div 8
            c == (k - 1) % 8
        IN  IF self.board[r][c] # NoPiece /\ self.board[r][c].color = color
            THEN LET ms == piece_moves(self, r, c)
                 IN  [i \in 1 .. Len(ms) |-> << <<r, c>>, ms[i] >>]
            ELSE << >>])

\* sim_board_state as it would be if the pawn passed in an en-passant
\* capture were left on the scratch board.
sim_board_state_keeping_passed_pawn(self, from_sq, to_sq) ==
    LET b == self.board
        piece_to_move_sim == b[from_sq[1]][from_sq[2]]
        is_castling_attempt ==
            piece_to_move_sim.kind = "K" /\ Abs(to_sq[2] - from_sq[2]) = 2
        rook_c1_orig == IF to_sq[2] < from_sq[2] THEN 0 ELSE 7
        rook_c2_new == from_sq[2] + (IF to_sq[2] > from_sq[2] THEN 1 ELSE -1)
        b1 == IF is_castling_attempt
              THEN [b EXCEPT ![from_sq[1]][rook_c2_new] = b[from_sq[1]][rook_c1_orig],
                             ![from_sq[1]][rook_c1_orig] = NoPiece]
              ELSE b
        b2 == IF /\ piece_to_move_sim.kind = "P"
                 /\ to_sq = self.en_passant_target
                 /\ Abs(to_sq[2] - from_sq[2]) = 1
                 /\ b1[to_sq[1]][to_sq[2]] = NoPiece
              THEN b1
              ELSE b1
    IN  [b2 EXCEPT ![to_sq[1]][to_sq[2]] = piece_to_move_sim,
                   ![from_sq[1]][from_sq[2]] = NoPiece]

\* The scratch board of ChessGame.get_all_legal_moves_for_player after it
\* simulated the candidate: the castling rook move, the en-passant removal,
\* then the piece itself.
sim_board_state(self, from_sq, to_sq) ==
    LET b == self.board
        piece_to_move_sim == b[from_sq[1]][from_sq[2]]
        is_castling_attempt ==
            piece_to_move_sim.kind = "K" /\ Abs(to_sq[2] - from_sq[2]) = 2
        rook_c1_orig == IF to_sq[2] < from_sq[2] THEN 0 ELSE 7
        rook_c2_new == from_sq[2] + (IF to_sq[2] > from_sq[2] THEN 1 ELSE -1)
        b1 == IF is_castling_attempt
              THEN [b EXCEPT ![from_sq[1]][rook_c2_new] = b[from_sq[1]][rook_c1_orig],
                             ![from_sq[1]][rook_c1_orig] = NoPiece]
              ELSE b
        b2 == IF /\ piece_to_move_sim.kind = "P"
                 /\ to_sq = self.en_passant_target
                 /\ Abs(to_sq[2] - from_sq[2]) = 1
                 /\ b1[to_sq[1]][to_sq[2]] = NoPiece
              THEN [b1 EXCEPT ![from_sq[1]][to_sq[2]] = NoPiece]
              ELSE b1
    IN  [b2 EXCEPT ![to_sq[1]][to_sq[2]] = piece_to_move_sim,
                   ![from_sq[1]][from_sq[2]] = NoPiece]

\* KeepsCandidate as it would be if the check test read the live board
\* instead of the scratch board.
KeepsCandidate_on_live_board(self, color, from_sq, to_sq) ==
    LET piece_to_move_sim == self.board[from_sq[1]][from_sq[2]]
        is_castling_attempt ==
            piece_to_move_sim.kind = "K" /\ Abs(to_sq[2] - from_sq[2]) = 2
        side == IF to_sq[2] > from_sq[2] THEN "K" ELSE "Q"
    IN  /\ piece_to_move_sim # NoPiece
        /\ is_castling_attempt => can_castle(self, color, side, self.board, TRUE)
        /\ ~is_in_check(color, self.board)

\* Whether the loop of get_all_legal_moves_for_player appends the candidate.
KeepsCandidate(self, color, from_sq, to_sq) ==
    LET piece_to_move_sim == self.board[from_sq[1]][from_sq[2]]
        is_castling_attempt ==
            piece_to_move_sim.kind = "K" /\ Abs(to_sq[2] - from_sq[2]) = 2
        side == IF to_sq[2] > from_sq[2] THEN "K" ELSE "Q"
    IN  /\ piece_to_move_sim # NoPiece
        /\ is_castling_attempt => can_castle(self, color, side, self.board, TRUE)
        /\ ~is_in_check(color, sim_board_state(self, from_sq, to_sq))

\* ChessGame.get_all_legal_moves_for_player.
get_all_legal_moves_for_player(self, color) ==
    SelectSeq(get_all_possible_moves_for_player(self, color),
              LAMBDA m : KeepsCandidate(self, color, m[1], m[2]))

\* update_castling_rights as it would be if a King move cleared only the
\* kingside right.
update_castling_rights_king_one_side(rights, piece_moved, from_sq, captured, to_sq) ==
    LET color == piece_moved.color
        original_rook_row == IF color = "W" THEN 7 ELSE 0
        after_mover ==
            IF piece_moved.kind = "K"
            THEN [rights EXCEPT ![color]["K"] = FALSE]
            ELSE IF piece_moved.kind = "R" /\ from_sq[1] = original_rook_row
                    /\ from_sq[2] = 0
            THEN [rights EXCEPT ![color]["Q"] = FALSE]
            ELSE IF piece_moved.kind = "R" /\ from_sq[1] = original_rook_row
                    /\ from_sq[2] = 7
            THEN [rights EXCEPT ![color]["K"] = FALSE]
            ELSE rights
        cap_color == captured.color
        cap_original_rook_row == IF cap_color = "W" THEN 7 ELSE 0
    IN  IF captured # NoPiece /\ captured.kind = "R"
           /\ to_sq[1] = cap_original_rook_row /\ to_sq[2] = 0
        THEN [after_mover EXCEPT ![cap_color]["Q"] = FALSE]
        ELSE IF captured # NoPiece /\ captured.kind = "R"
                /\ to_sq[1] = cap_original_rook_row /\ to_sq[2] = 7
        THEN [after_mover EXCEPT ![cap_color]["K"] = FALSE]
        ELSE after_mover

\* update_castling_rights as it would be if a Rook move rebuilt the
\* mover's entry of the table instead of clearing one flag of it.
update_castling_rights_rebuilding(rights, piece_moved, from_sq, captured, to_sq) ==
    LET color == piece_moved.color
        original_rook_row == IF color = "W" THEN 7 ELSE 0
        after_mover ==
            IF piece_moved.kind = "K"
            THEN [rights EXCEPT ![color] = [K |-> FALSE, Q |-> FALSE]]
            ELSE IF piece_moved.kind = "R" /\ from_sq[1] = original_rook_row
                    /\ from_sq[2] = 0
            THEN [rights EXCEPT ![color] = [K |-> TRUE, Q |-> FALSE]]
            ELSE IF piece_moved.kind = "R" /\ from_sq[1] = original_rook_row
                    /\ from_sq[2] = 7
            THEN [rights EXCEPT ![color] = [K |-> FALSE, Q |-> TRUE]]
            ELSE rights
        cap_color == captured.color
        cap_original_rook_row == IF cap_color = "W" THEN 7 ELSE 0
    IN  IF captured # NoPiece /\ captured.kind = "R"
           /\ to_sq[1] = cap_original_rook_row /\ to_sq[2] = 0
        THEN [after_mover EXCEPT ![cap_color]["Q"] = FALSE]
        ELSE IF captured # NoPiece /\ captured.kind = "R"
                /\ to_sq[1] = cap_original_rook_row /\ to_sq[2] = 7
        THEN [after_mover EXCEPT ![cap_color]["K"] = FALSE]
        ELSE after_mover

\* update_castling_rights as it would be if the captured Rook's right were
\* looked up under the mover's color.
update_castling_rights_mover_color(rights, piece_moved, from_sq, captured, to_sq) ==
    LET color == piece_moved.color
        original_rook_row == IF color = "W" THEN 7 ELSE 0
        after_mover ==
            IF piece_moved.kind = "K"
            THEN [rights EXCEPT ![color] = [K |-> FALSE, Q |-> FALSE]]
            ELSE IF piece_moved.kind = "R" /\ from_sq[1] = original_rook_row
                    /\ from_sq[2] = 0
            THEN [rights EXCEPT ![color]["Q"] = FALSE]
            ELSE IF piece_moved.kind = "R" /\ from_sq[1] = original_rook_row
                    /\ from_sq[2] = 7
            THEN [rights EXCEPT ![color]["K"] = FALSE]
            ELSE rights
        cap_original_rook_row == IF color = "W" THEN 7 ELSE 0
    IN  IF captured # NoPiece /\ captured.kind = "R"
           /\ to_sq[1] = cap_original_rook_row /\ to_sq[2] = 0
        THEN [after_mover EXCEPT ![color]["Q"] = FALSE]
        ELSE IF captured # NoPiece /\ captured.kind = "R"
                /\ to_sq[1] = cap_original_rook_row /\ to_sq[2] = 7
        THEN [after_mover EXCEPT ![color]["K"] = FALSE]
        ELSE after_mover

\* update_castling_rights as it would be if a Rook leaving its kingside
\* corner kept the right.
update_castling_rights_kingside_rook_kept(rights, piece_moved, from_sq, captured, to_sq) ==
    LET color == piece_moved.color
        r == from_sq[1]
        c == from_sq[2]
        original_rook_row == IF color = "W" THEN 7 ELSE 0
        after_mover ==
            IF piece_moved.kind = "K"
            THEN [rights EXCEPT ![color] = [K |-> FALSE, Q |-> FALSE]]
            ELSE IF piece_moved.kind = "R" /\ r = original_rook_row /\ c = 0
            THEN [rights EXCEPT ![color]["Q"] = FALSE]
            ELSE rights
        cap_color == captured.color
        cap_original_rook_row == IF cap_color = "W" THEN 7 ELSE 0
    IN  IF captured # NoPiece /\ captured.kind = "R"
           /\ to_sq[1] = cap_original_rook_row /\ to_sq[2] = 0
        THEN [after_mover EXCEPT ![cap_color]["Q"] = FALSE]
        ELSE IF captured # NoPiece /\ captured.kind = "R"
                /\ to_sq[1] = cap_original_rook_row /\ to_sq[2] = 7
        THEN [after_mover EXCEPT ![cap_color]["K"] = FALSE]
        ELSE after_mover

\* ChessGame.update_castling_rights: the rights table it leaves.
update_castling_rights(rights, piece_moved, from_sq, captured, to_sq) ==
    LET color == piece_moved.color
        r == from_sq[1]
        c == from_sq[2]
        original_rook_row == IF color = "W" THEN 7 ELSE 0
        after_mover ==
            IF piece_moved.kind = "K"
            THEN [rights EXCEPT ![color] = [K |-> FALSE, Q |-> FALSE]]
            ELSE IF piece_moved.kind = "R" /\ r = original_rook_row /\ c = 0
            THEN [rights EXCEPT ![color]["Q"] = FALSE]
            ELSE IF piece_moved.kind = "R" /\ r = original_rook_row /\ c = 7
            THEN [rights EXCEPT ![color]["K"] = FALSE]
            ELSE rights
        cap_color == captured.color
        cap_original_rook_row == IF cap_color = "W" THEN 7 ELSE 0
    IN  IF captured # NoPiece /\ captured.kind = "R"
           /\ to_sq[1] = cap_original_rook_row /\ to_sq[2] = 0
        THEN [after_mover EXCEPT ![cap_color]["Q"] = FALSE]
        ELSE IF captured # NoPiece /\ captured.kind = "R"
                /\ to_sq[1] = cap_original_rook_row /\ to_sq[2] = 7
        THEN [after_mover EXCEPT ![cap_color]["K"] = FALSE]
        ELSE after_mover

\* needs_promotion as it would be if the farthest rank were that of the
\* side to move instead of that of the pawn's color.
needs_promotion_for_side_to_move(board_state, from_sq, to_sq) ==
    LET piece == get_piece(board_state, from_sq[1], from_sq[2])
    IN  /\ piece.kind = "P"
        /\ ((current_player = "W" /\ to_sq[1] = 0)
            \/ (current_player = "B" /\ to_sq[1] = 7))

\* ChessGame.needs_promotion.
needs_promotion(board_state, from_sq, to_sq) ==
    LET piece == get_piece(board_state, from_sq[1], from_sq[2])
    IN  /\ piece.kind = "P"
        /\ ((piece.color = "W" /\ to_sq[1] = 0)
            \/ (piece.color = "B" /\ to_sq[1] = 7))

\* The part of the game object the move queries read.
Self == [board |-> board, en_passant_target |-> en_passant_target,
         castling_rights |-> castling_rights]

\* next_en_passant_target as it would be if it named the square the pawn
\* landed on.
next_en_passant_target_landing(moved, from_sq, to_sq) ==
    IF moved.kind = "P" /\ Abs(from_sq[1] - to_sq[1]) = 2
    THEN <<to_sq[1], from_sq[2]>> ELSE NoSquare

\* next_en_passant_target as it would be if the previous target were kept
\* when the move is no double step.
next_en_passant_target_carried(moved, from_sq, to_sq) ==
    IF moved.kind = "P" /\ Abs(from_sq[1] - to_sq[1]) = 2
    THEN <<(from_sq[1] + to_sq[1]) \div 2, from_sq[2]>>
    ELSE en_passant_target

\* ChessGame.process_move, step 3: the en-passant target it leaves, the
\* previous one cleared; moved is the piece on to_sq after the move.
next_en_passant_target(moved, from_sq, to_sq) ==
    IF moved.kind = "P" /\ Abs(from_sq[1] - to_sq[1]) = 2
    THEN <<(from_sq[1] + to_sq[1]) \div 2, from_sq[2]>> ELSE NoSquare

\* next_halfmove_clock as it would be if only a capture reset the clock.
next_halfmove_clock_capture_only(clock, is_pawn_move, is_capture) ==
    IF is_capture THEN 0 ELSE clock + 1

\* ChessGame.process_move, step 1: the halfmove clock it leaves.
next_halfmove_clock(clock, is_pawn_move, is_capture) ==
    IF is_pawn_move \/ is_capture THEN 0 ELSE clock + 1

\* switch_player_current as it would be if it always handed the move to
\* Black.
switch_player_current_always_black(player) == "B"

\* ChessGame.switch_player: the side to move it leaves.
switch_player_current(player) == IF player = "W" THEN "B" ELSE "W"

\* switch_player_fullmove as it would be if the number were counted up
\* after White's move.
switch_player_fullmove_after_white(player, number) ==
    IF player = "W" THEN number + 1 ELSE number

\* ChessGame.switch_player: the fullmove number it leaves.
switch_player_fullmove(player, number) ==
    IF player = "B" THEN number + 1 ELSE number

\* to_notation(coords): the file letter and the rank digit of a square, or
\* None (formatted "None") for a square off the board.
FileLetters == <<"a", "b", "c", "d", "e", "f", "g", "h">>

to_notation(coords) ==
    IF ~(0 <= coords[1] /\ coords[1] <= 7 /\ 0 <= coords[2] /\ coords[2] <= 7)
    THEN "None"
    ELSE FileLetters[coords[2] + 1] \o ToString(8 - coords[1])

\* Piece.symbol: the letter in upper case for White, lower case for Black.
symbol(piece) ==
    IF piece.color = "W" THEN piece.kind
    ELSE CASE piece.kind = "P" -> "p" [] piece.kind = "R" -> "r"
           [] piece.kind = "N" -> "n" [] piece.kind = "B" -> "b"
           [] piece.kind = "Q" -> "q" [] piece.kind = "K" -> "k"

\* ChessGame.get_fen, the inner loop: rank_str for row r from column c on,
\* with empty_count empty cells pending.
RECURSIVE rank_str(_, _, _, _)
rank_str(board_state, r, c, empty_count) ==
    IF c > 7
    THEN (IF empty_count > 0 THEN ToString(empty_count) ELSE "")
    ELSE IF board_state[r][c] # NoPiece
    THEN (IF empty_count > 0 THEN ToString(empty_count) ELSE "")
         \o symbol(board_state[r][c])
         \o rank_str(board_state, r, c + 1, 0)
    ELSE rank_str(board_state, r, c + 1, empty_count + 1)

\* piece_placement as it would be if the rows were written from White's
\* back rank up.
piece_placement_from_rank_one(board_state) ==
    rank_str(board_state, 7, 0, 0) \o "/" \o rank_str(board_state, 6, 0, 0)
    \o "/" \o rank_str(board_state, 5, 0, 0) \o "/"
    \o rank_str(board_state, 4, 0, 0) \o "/" \o rank_str(board_state, 3, 0, 0)
    \o "/" \o rank_str(board_state, 2, 0, 0) \o "/"
    \o rank_str(board_state, 1, 0, 0) \o "/" \o rank_str(board_state, 0, 0, 0)

\* ChessGame.get_fen, part 1: the rows 0 .. 7 joined by "/".
piece_placement(board_state) ==
    rank_str(board_state, 0, 0, 0) \o "/" \o rank_str(board_state, 1, 0, 0)
    \o "/" \o rank_str(board_state, 2, 0, 0) \o "/"
    \o rank_str(board_state, 3, 0, 0) \o "/" \o rank_str(board_state, 4, 0, 0)
    \o "/" \o rank_str(board_state, 5, 0, 0) \o "/"
    \o rank_str(board_state, 6, 0, 0) \o "/" \o rank_str(board_state, 7, 0, 0)

\* castling_str as it would be without the "-" for no right at all.
castling_str_without_dash(rights) ==
    (IF rights["W"]["K"] THEN "K" ELSE "")
    \o (IF rights["W"]["Q"] THEN "Q" ELSE "")
    \o (IF rights["B"]["K"] THEN "k" ELSE "")
    \o (IF rights["B"]["Q"] THEN "q" ELSE "")

\* ChessGame.get_fen, part 3.
castling_str(rights) ==
    LET letters == (IF rights["W"]["K"] THEN "K" ELSE "")
                   \o (IF rights["W"]["Q"] THEN "Q" ELSE "")
                   \o (IF rights["B"]["K"] THEN "k" ELSE "")
                   \o (IF rights["B"]["Q"] THEN "q" ELSE "")
    IN  IF letters = "" THEN "-" ELSE letters

\* ChessGame.get_fen, part 4.
ep_target_str(target) ==
    IF target # NoSquare THEN to_notation(target) ELSE "-"

\* ChessGame.get_fen(): the six fields joined by single spaces.
get_fen ==
    piece_placement(board) \o " "
    \o (IF current_player = "W" THEN "w" ELSE "b") \o " "
    \o castling_str(castling_rights) \o " "
    \o ep_target_str(en_passant_target) \o " "
    \o ToString(halfmove_clock) \o " "
    \o ToString(fullmove_number)

\* ------------------------------------------------------------ caller

\* The number of calls the caller makes once its script is replayed.
MaxCalls == 1

\* The promotion choices a caller passes: None, the four letters of
\* promo_map, a lower-case letter and a letter promo_map does not hold.
PromotionChoices == {NoChoice, "Q", "R", "B", "N", "n", "X"}

\* The scripts: each a sequence of process_move calls
\* <<from_sq, to_sq, promotion_choice_char>> made on a fresh game, written
\* above it in coordinate notation (a1 is <<7, 0>>, h8 is <<0, 7>>).

\* f2f3 e7e5 g2g4 d8h4
FoolsMate ==
    << << <<6, 5>>, <<5, 5>>, NoChoice >>, << <<1, 4>>, <<3, 4>>, NoChoice
       >>, << <<6, 6>>, <<4, 6>>, NoChoice >>, << <<0, 3>>, <<4, 7>>,
       NoChoice >> >>

\* e2e4 e7e5 g1f3 g8f6 f1c4 f8c5 d2d3 d7d6 b1c3 b8c6 c1e3 c8e6 d1d2 d8d7
CastlingReady ==
    << << <<6, 4>>, <<4, 4>>, NoChoice >>, << <<1, 4>>, <<3, 4>>, NoChoice
       >>, << <<7, 6>>, <<5, 5>>, NoChoice >>, << <<0, 6>>, <<2, 5>>,
       NoChoice >>, << <<7, 5>>, <<4, 2>>, NoChoice >>, << <<0, 5>>, <<3,
       2>>, NoChoice >>, << <<6, 3>>, <<5, 3>>, NoChoice >>, << <<1, 3>>,
       <<2, 3>>, NoChoice >>, << <<7, 1>>, <<5, 2>>, NoChoice >>, << <<0,
       1>>, <<2, 2>>, NoChoice >>, << <<7, 2>>, <<5, 4>>, NoChoice >>, <<
       <<0, 2>>, <<2, 4>>, NoChoice >>, << <<7, 3>>, <<6, 3>>, NoChoice >>,
       << <<0, 3>>, <<1, 3>>, NoChoice >> >>

\* e2e4 e7e5 g1f3 g8f6 f1c4 f8c5 d2d3 d7d6 b1c3 b8c6 c1e3 c8e6 d1d2 d8d7
\* e1g1
CastlingReadyBlack ==
    << << <<6, 4>>, <<4, 4>>, NoChoice >>, << <<1, 4>>, <<3, 4>>, NoChoice
       >>, << <<7, 6>>, <<5, 5>>, NoChoice >>, << <<0, 6>>, <<2, 5>>,
       NoChoice >>, << <<7, 5>>, <<4, 2>>, NoChoice >>, << <<0, 5>>, <<3,
       2>>, NoChoice >>, << <<6, 3>>, <<5, 3>>, NoChoice >>, << <<1, 3>>,
       <<2, 3>>, NoChoice >>, << <<7, 1>>, <<5, 2>>, NoChoice >>, << <<0,
       1>>, <<2, 2>>, NoChoice >>, << <<7, 2>>, <<5, 4>>, NoChoice >>, <<
       <<0, 2>>, <<2, 4>>, NoChoice >>, << <<7, 3>>, <<6, 3>>, NoChoice >>,
       << <<0, 3>>, <<1, 3>>, NoChoice >>, << <<7, 4>>, <<7, 6>>, NoChoice >> >>

\* e2e4 a7a6 e4e5 d7d5
EnPassant ==
    << << <<6, 4>>, <<4, 4>>, NoChoice >>, << <<1, 0>>, <<2, 0>>, NoChoice
       >>, << <<4, 4>>, <<3, 4>>, NoChoice >>, << <<1, 3>>, <<3, 3>>,
       NoChoice >> >>

\* a2a3 d7d5 a3a4 d5d4 e2e4
EnPassantBlack ==
    << << <<6, 0>>, <<5, 0>>, NoChoice >>, << <<1, 3>>, <<3, 3>>, NoChoice
       >>, << <<5, 0>>, <<4, 0>>, NoChoice >>, << <<3, 3>>, <<4, 3>>,
       NoChoice >>, << <<6, 4>>, <<4, 4>>, NoChoice >> >>

\* e2e4 a7a6 e4e5 d7d5 a2a3 a6a5
EnPassantDeclined ==
    << << <<6, 4>>, <<4, 4>>, NoChoice >>, << <<1, 0>>, <<2, 0>>, NoChoice
       >>, << <<4, 4>>, <<3, 4>>, NoChoice >>, << <<1, 3>>, <<3, 3>>,
       NoChoice >>, << <<6, 0>>, <<5, 0>>, NoChoice >>, << <<2, 0>>, <<3,
       0>>, NoChoice >> >>

\* e2e4 e7e5 f1c4 b8c6 d1h5 g8f6 h5f7
ScholarsMate ==
    << << <<6, 4>>, <<4, 4>>, NoChoice >>, << <<1, 4>>, <<3, 4>>, NoChoice
       >>, << <<7, 5>>, <<4, 2>>, NoChoice >>, << <<0, 1>>, <<2, 2>>,
       NoChoice >>, << <<7, 3>>, <<3, 7>>, NoChoice >>, << <<0, 6>>, <<2,
       5>>, NoChoice >>, << <<3, 7>>, <<1, 5>>, NoChoice >> >>

\* e2e4 b7b6 g2g3 c8a6 f1g2 g8f6 g1f3 e7e6
CastlingThroughCheck ==
    << << <<6, 4>>, <<4, 4>>, NoChoice >>, << <<1, 1>>, <<2, 1>>, NoChoice
       >>, << <<6, 6>>, <<5, 6>>, NoChoice >>, << <<0, 2>>, <<2, 0>>,
       NoChoice >>, << <<7, 5>>, <<6, 6>>, NoChoice >>, << <<0, 6>>, <<2,
       5>>, NoChoice >>, << <<7, 6>>, <<5, 5>>, NoChoice >>, << <<1, 4>>,
       <<2, 4>>, NoChoice >> >>

\* g2g4 h7h5 a2a3 h5g4 a3a4 g4g3 a4a5 g3h2 a5a6
PromotionReadyBlack ==
    << << <<6, 6>>, <<4, 6>>, NoChoice >>, << <<1, 7>>, <<3, 7>>, NoChoice
       >>, << <<6, 0>>, <<5, 0>>, NoChoice >>, << <<3, 7>>, <<4, 6>>,
       NoChoice >>, << <<5, 0>>, <<4, 0>>, NoChoice >>, << <<4, 6>>, <<5,
       6>>, NoChoice >>, << <<4, 0>>, <<3, 0>>, NoChoice >>, << <<5, 6>>,
       <<6, 7>>, NoChoice >>, << <<3, 0>>, <<2, 0>>, NoChoice >> >>

\* h2h4 g7g5 h4g5 g8f6 g5g6 a7a6 g6g7 a6a5
PromotionReady ==
    << << <<6, 7>>, <<4, 7>>, NoChoice >>, << <<1, 6>>, <<3, 6>>, NoChoice
       >>, << <<4, 7>>, <<3, 6>>, NoChoice >>, << <<0, 6>>, <<2, 5>>,
       NoChoice >>, << <<3, 6>>, <<2, 6>>, NoChoice >>, << <<1, 0>>, <<2,
       0>>, NoChoice >>, << <<2, 6>>, <<1, 6>>, NoChoice >>, << <<2, 0>>,
       <<3, 0>>, NoChoice >> >>

\* h2h4 g7g5 h4g5 g8f6 g5g6 a7a6 g6g7 a6a5 g7h8 g7h8R
PromotionAsk ==
    << << <<6, 7>>, <<4, 7>>, NoChoice >>, << <<1, 6>>, <<3, 6>>, NoChoice
       >>, << <<4, 7>>, <<3, 6>>, NoChoice >>, << <<0, 6>>, <<2, 5>>,
       NoChoice >>, << <<3, 6>>, <<2, 6>>, NoChoice >>, << <<1, 0>>, <<2,
       0>>, NoChoice >>, << <<2, 6>>, <<1, 6>>, NoChoice >>, << <<2, 0>>,
       <<3, 0>>, NoChoice >>, << <<1, 6>>, <<0, 7>>, NoChoice >>, << <<1,
       6>>, <<0, 7>>, "R" >> >>

\* b2b3 g7g6 c1b2 a7a6
BishopTakesRook ==
    << << <<6, 1>>, <<5, 1>>, NoChoice >>, << <<1, 6>>, <<2, 6>>, NoChoice
       >>, << <<7, 2>>, <<6, 1>>, NoChoice >>, << <<1, 0>>, <<2, 0>>,
       NoChoice >> >>

\* h2h4 g7g5 h4g5 h7h6 g5h6 g8h6 d2d3 h6g4
RookTakesRook ==
    << << <<6, 7>>, <<4, 7>>, NoChoice >>, << <<1, 6>>, <<3, 6>>, NoChoice
       >>, << <<4, 7>>, <<3, 6>>, NoChoice >>, << <<1, 7>>, <<2, 7>>,
       NoChoice >>, << <<3, 6>>, <<2, 7>>, NoChoice >>, << <<0, 6>>, <<2,
       7>>, NoChoice >>, << <<6, 3>>, <<5, 3>>, NoChoice >>, << <<2, 7>>,
       <<4, 6>>, NoChoice >> >>

\* h2h4 g7g5 h4g5 h7h6 g5h6 h8h6
RookTakenElsewhere ==
    << << <<6, 7>>, <<4, 7>>, NoChoice >>, << <<1, 6>>, <<3, 6>>, NoChoice
       >>, << <<4, 7>>, <<3, 6>>, NoChoice >>, << <<1, 7>>, <<2, 7>>,
       NoChoice >>, << <<3, 6>>, <<2, 7>>, NoChoice >>, << <<0, 7>>, <<2,
       7>>, NoChoice >> >>

\* e2e4 e7e5 d1h5 b8c6 h5f7
QueenCheck ==
    << << <<6, 4>>, <<4, 4>>, NoChoice >>, << <<1, 4>>, <<3, 4>>, NoChoice
       >>, << <<7, 3>>, <<3, 7>>, NoChoice >>, << <<0, 1>>, <<2, 2>>,
       NoChoice >>, << <<3, 7>>, <<1, 5>>, NoChoice >> >>

\* e2e4 e7e5 g1f3 d7d6 f1b5
BishopCheck ==
    << << <<6, 4>>, <<4, 4>>, NoChoice >>, << <<1, 4>>, <<3, 4>>, NoChoice
       >>, << <<7, 6>>, <<5, 5>>, NoChoice >>, << <<1, 3>>, <<2, 3>>,
       NoChoice >>, << <<7, 5>>, <<3, 1>>, NoChoice >> >>

\* e2e3 a7a5 d1h5 a8a6 h5a5 h7h5 h2h4 a6h6 a5c7 f7f6 c7d7 e8f7 d7b7 d8d3
\* b7b8 d3h7 b8c8 f7g6 c8e6
Stalemate ==
    << << <<6, 4>>, <<5, 4>>, NoChoice >>, << <<1, 0>>, <<3, 0>>, NoChoice
       >>, << <<7, 3>>, <<3, 7>>, NoChoice >>, << <<0, 0>>, <<2, 0>>,
       NoChoice >>, << <<3, 7>>, <<3, 0>>, NoChoice >>, << <<1, 7>>, <<3,
       7>>, NoChoice >>, << <<6, 7>>, <<4, 7>>, NoChoice >>, << <<2, 0>>,
       <<2, 7>>, NoChoice >>, << <<3, 0>>, <<1, 2>>, NoChoice >>, << <<1,
       5>>, <<2, 5>>, NoChoice >>, << <<1, 2>>, <<1, 3>>, NoChoice >>, <<
       <<0, 4>>, <<1, 5>>, NoChoice >>, << <<1, 3>>, <<1, 1>>, NoChoice >>,
       << <<0, 3>>, <<5, 3>>, NoChoice >>, << <<1, 1>>, <<0, 1>>, NoChoice
       >>, << <<5, 3>>, <<1, 7>>, NoChoice >>, << <<0, 1>>, <<0, 2>>,
       NoChoice >>, << <<1, 5>>, <<2, 6>>, NoChoice >>, << <<0, 2>>, <<2,
       4>>, NoChoice >> >>

Lines ==
    {<< >>, FoolsMate, ScholarsMate, CastlingReady, CastlingThroughCheck,
     PromotionReadyBlack, CastlingReadyBlack, EnPassant, EnPassantBlack, EnPassantDeclined,
     PromotionReady, PromotionAsk, BishopTakesRook, RookTakesRook, RookTakenElsewhere, QueenCheck, BishopCheck, Stalemate}

\* ----------------------------------------------------------- actions

\* game_over_after as it would be if the winner were looked up under the
\* color that moved instead of the color that is mated.
game_over_after_naming_loser(new_player, new_player_in_check, new_player_legal_moves, old_message) ==
    IF new_player_in_check /\ new_player_legal_moves = << >>
    THEN (IF new_player = "W" THEN "Checkmate! White wins."
          ELSE "Checkmate! Black wins.")
    ELSE IF ~new_player_in_check /\ new_player_legal_moves = << >>
    THEN "Stalemate! It's a draw."
    ELSE old_message

\* game_over_after as it would be without the stalemate branch.
game_over_after_without_stalemate(new_player, new_player_in_check, new_player_legal_moves, old_message) ==
    IF new_player_in_check /\ new_player_legal_moves = << >>
    THEN (IF new_player = "W" THEN "Checkmate! Black wins."
          ELSE "Checkmate! White wins.")
    ELSE old_message

\* ChessGame.process_move, step 5: the game_over_message it leaves for the
\* new side to move.
game_over_after(new_player, new_player_in_check, new_player_legal_moves, old_message) ==
    IF new_player_in_check /\ new_player_legal_moves = << >>
    THEN (IF new_player = "W" THEN "Checkmate! Black wins."
          ELSE "Checkmate! White wins.")
    ELSE IF ~new_player_in_check /\ new_player_legal_moves = << >>
    THEN "Stalemate! It's a draw."
    ELSE old_message

\* RejectGameOver as it would be if the status string were cleared before
\* the game-over test.
RejectGameOver_clearing_status ==
    /\ ret' = "False"
    /\ status_message' = ""
    /\ UNCHANGED <<board, move_history, current_player, castling_rights,
                   en_passant_target, halfmove_clock, fullmove_number,
                   game_over_message>>

\* ChessGame.process_move where it returns False before reading the board:
\* the game is over.
RejectGameOver ==
    /\ ret' = "False"
    /\ UNCHANGED game

\* Reject as it would be if the en-passant target were cleared before the
\* move is validated.
Reject_clearing_target(message) ==
    /\ status_message' = message
    /\ ret' = "False"
    /\ en_passant_target' = NoSquare
    /\ UNCHANGED <<board, move_history, current_player, castling_rights,
                   halfmove_clock, fullmove_number, game_over_message>>

\* Reject as it would be if a rejected call counted as a half move.
Reject_counting_halfmove(message) ==
    /\ status_message' = message
    /\ ret' = "False"
    /\ halfmove_clock' = halfmove_clock + 1
    /\ UNCHANGED <<board, move_history, current_player, castling_rights,
                   en_passant_target, fullmove_number, game_over_message>>

\* ChessGame.process_move where it returns False with a status string.
Reject(message) ==
    /\ status_message' = message
    /\ ret' = "False"
    /\ UNCHANGED <<board, move_history, current_player, castling_rights,
                   en_passant_target, halfmove_clock, fullmove_number,
                   game_over_message>>

\* ChessGame.process_move where it returns "PROMOTION_NEEDED": the status
\* string was cleared on entry.
PromotionNeeded ==
    /\ status_message' = ""
    /\ ret' = "PROMOTION_NEEDED"
    /\ UNCHANGED <<board, move_history, current_player, castling_rights,
                   en_passant_target, halfmove_clock, fullmove_number,
                   game_over_message>>

\* ApplyMove as it would be if the new side's check were tested on the grid
\* as it was before the move.
ApplyMove_check_on_old_board(from_sq, to_sq, promotion_choice_char) ==
    \E made \in {make_move(board, from_sq, to_sq, promotion_choice_char)} :
      LET r2 == to_sq[1]
          c2 == to_sq[2]
          original_piece_at_to_sq == get_piece(board, r2, c2)
          moved == get_piece(made.board, r2, c2)
          new_rights == update_castling_rights(castling_rights, moved, from_sq,
                                               original_piece_at_to_sq, to_sq)
          new_ep == next_en_passant_target(moved, from_sq, to_sq)
          new_player == switch_player_current(current_player)
          turn == IF new_player = "W" THEN "W's turn." ELSE "B's turn."
          turn_check == IF new_player = "W" THEN "W's turn. Check!"
                        ELSE "B's turn. Check!"
      IN  \E new_player_in_check \in {is_in_check(new_player, board)},
             new_player_legal_moves \in
                 {get_all_legal_moves_for_player(
                      [board |-> made.board, en_passant_target |-> new_ep,
                       castling_rights |-> new_rights], new_player)} :
            /\ board' = made.board
            /\ move_history' = move_history \o made.history
            /\ halfmove_clock' =
                   next_halfmove_clock(halfmove_clock, made.is_pawn_move,
                                       made.is_capture)
            /\ castling_rights' = new_rights
            /\ en_passant_target' = new_ep
            /\ fullmove_number' =
                   switch_player_fullmove(current_player, fullmove_number)
            /\ current_player' = new_player
            /\ game_over_message' =
                   game_over_after(new_player, new_player_in_check,
                                   new_player_legal_moves, game_over_message)
            /\ status_message' =
                   IF new_player_legal_moves = << >>
                   THEN game_over_after(new_player, new_player_in_check,
                                        new_player_legal_moves,
                                        game_over_message)
                   ELSE IF new_player_in_check THEN turn_check
                   ELSE turn
            /\ ret' = "True"

\* ChessGame.process_move from the call of Board.make_move on: the move is
\* made and the game state updated.  made is what Board.make_move returns
\* and leaves, new_player_legal_moves the list computed for the new side to
\* move; each is bound once, as the code computes it once.
ApplyMove(from_sq, to_sq, promotion_choice_char) ==
    \E made \in {make_move(board, from_sq, to_sq, promotion_choice_char)} :
      LET r2 == to_sq[1]
          c2 == to_sq[2]
          original_piece_at_to_sq == get_piece(board, r2, c2)
          moved == get_piece(made.board, r2, c2)
          new_rights == update_castling_rights(castling_rights, moved, from_sq,
                                               original_piece_at_to_sq, to_sq)
          new_ep == next_en_passant_target(moved, from_sq, to_sq)
          new_player == switch_player_current(current_player)
          turn == IF new_player = "W" THEN "W's turn." ELSE "B's turn."
          turn_check == IF new_player = "W" THEN "W's turn. Check!"
                        ELSE "B's turn. Check!"
      IN  \E new_player_in_check \in {is_in_check(new_player, made.board)},
             new_player_legal_moves \in
                 {get_all_legal_moves_for_player(
                      [board |-> made.board, en_passant_target |-> new_ep,
                       castling_rights |-> new_rights], new_player)} :
            /\ board' = made.board
            /\ move_history' = move_history \o made.history
            /\ halfmove_clock' =
                   next_halfmove_clock(halfmove_clock, made.is_pawn_move,
                                       made.is_capture)
            /\ castling_rights' = new_rights
            /\ en_passant_target' = new_ep
            /\ fullmove_number' =
                   switch_player_fullmove(current_player, fullmove_number)
            /\ current_player' = new_player
            /\ game_over_message' =
                   game_over_after(new_player, new_player_in_check,
                                   new_player_legal_moves, game_over_message)
            /\ status_message' =
                   IF new_player_legal_moves = << >>
                   THEN game_over_after(new_player, new_player_in_check,
                                        new_player_legal_moves,
                                        game_over_message)
                   ELSE IF new_player_in_check THEN turn_check
                   ELSE turn
            /\ ret' = "True"

\* process_move as it would be if the promotion test came before the
\* legality test.
process_move_promotion_first(from_sq, to_sq, promotion_choice_char, legal_moves, in_check) ==
    LET piece == get_piece(board, from_sq[1], from_sq[2])
        illegal_in_check == IF current_player = "W"
                            THEN "Illegal move. W is in check!"
                            ELSE "Illegal move. B is in check!"
    IN  IF game_over_message # NoMessage THEN RejectGameOver
        ELSE IF piece = NoPiece \/ piece.color # current_player
        THEN Reject("Invalid selection or not your turn.")
        ELSE IF needs_promotion(board, from_sq, to_sq)
                /\ promotion_choice_char = NoChoice
        THEN PromotionNeeded
        ELSE IF ~InList(<<from_sq, to_sq>>, legal_moves)
        THEN Reject(IF in_check THEN illegal_in_check ELSE "Illegal move.")
        ELSE ApplyMove(from_sq, to_sq, promotion_choice_char)

\* ChessGame.process_move(from_sq, to_sq, promotion_choice_char).
\* legal_moves is what get_all_legal_moves_for_player(current_player)
\* returns in the state of the call and in_check what
\* is_in_check(current_player) returns there.
process_move(from_sq, to_sq, promotion_choice_char, legal_moves, in_check) ==
    LET piece == get_piece(board, from_sq[1], from_sq[2])
        illegal_in_check == IF current_player = "W"
                            THEN "Illegal move. W is in check!"
                            ELSE "Illegal move. B is in check!"
    IN  IF game_over_message # NoMessage THEN RejectGameOver
        ELSE IF piece = NoPiece \/ piece.color # current_player
        THEN Reject("Invalid selection or not your turn.")
        ELSE IF ~InList(<<from_sq, to_sq>>, legal_moves)
        THEN Reject(IF in_check THEN illegal_in_check ELSE "Illegal move.")
        ELSE IF needs_promotion(board, from_sq, to_sq)
                /\ promotion_choice_char = NoChoice
        THEN PromotionNeeded
        ELSE ApplyMove(from_sq, to_sq, promotion_choice_char)

\* The caller replays the next call of its script.
Replay ==
    /\ script # << >>
    /\ process_move(Head(script)[1], Head(script)[2], Head(script)[3],
                    get_all_legal_moves_for_player(Self, current_player),
                    is_in_check(current_player, board))
    /\ script' = Tail(script)
    /\ calls_left' = calls_left
    /\ reads' = << >>
    /\ board_state_seen' = board_state_seen
    /\ call_stack' = call_stack

\* The squares a caller probes with besides the moves the game lists.
ProbeSquares == {<<7, 4>>, <<0, 4>>, <<4, 4>>, <<0, 7>>}

\* The calls a caller makes in a state, as the presentation layer does: a
\* move of the list get_all_legal_moves_for_player shows it, with a
\* promotion choice (or none) where needs_promotion says one is due; or any
\* two probe squares, with or without a choice.
CallerInputs(legal_moves) ==
    {<<legal_moves[i][1], legal_moves[i][2], ch>> :
        i \in 1 .. Len(legal_moves), ch \in PromotionChoices}
    \cup {<<f, t, ch>> : f \in ProbeSquares, t \in ProbeSquares,
                         ch \in {NoChoice, "Q"}}

\* The caller, its script replayed, makes one more call of process_move,
\* MaxCalls calls at most.
Play ==
    /\ script = << >>
    /\ calls_left > 0
    /\ \E legal_moves \in
              {get_all_legal_moves_for_player(Self, current_player)},
          in_check \in {is_in_check(current_player, board)} :
           \E input \in CallerInputs(legal_moves) :
               /\ input[3] # NoChoice =>
                      \/ needs_promotion(board, input[1], input[2])
                      \/ input[1] \in ProbeSquares /\ input[2] \in ProbeSquares
               /\ process_move(input[1], input[2], input[3], legal_moves,
                               in_check)
    /\ calls_left' = calls_left - 1
    /\ script' = script
    /\ reads' = << >>
    /\ board_state_seen' = board_state_seen
    /\ call_stack' = call_stack

\* ChessGame.__init__ and Board.__init__, and the caller's script.
Init ==
    /\ board = setup_pieces
    /\ move_history = << >>
    /\ current_player = "W"
    /\ castling_rights = [color \in {"W", "B"} |-> [K |-> TRUE, Q |-> TRUE]]
    /\ en_passant_target = NoSquare
    /\ halfmove_clock = 0
    /\ fullmove_number = 1
    /\ status_message = "White's turn."
    /\ game_over_message = NoMessage
    /\ ret = "None"
    /\ script \in Lines
    /\ calls_left = MaxCalls
    /\ reads = << >>
    /\ board_state_seen = NoGrid
    /\ call_stack = << >>

Next == Replay \/ Play

Spec == Init /\ [][Next]_vars

\* ------------------------------------------------------------- reads

\* The number of reads the caller makes between two process_move calls.
MaxReads == 2

\* The caller records a query and what it returned.
Record(op, args, result) ==
    reads' = Append(reads, [op |-> op, args |-> args, result |-> result])

\* GetFen as it would be if building the text advanced the halfmove clock.
GetFen_advancing_clock ==
    /\ script = << >>
    /\ calls_left > 0
    /\ Len(reads) < MaxReads
    /\ Record("get_fen", << >>, get_fen)
    /\ halfmove_clock' = halfmove_clock + 1
    /\ UNCHANGED <<board, move_history, current_player, castling_rights,
                   en_passant_target, fullmove_number, status_message,
                   game_over_message, ret, script, calls_left,
                   board_state_seen, call_stack>>

\* ChessGame.get_fen() called by the caller: the text is built from the
\* game's fields and nothing is assigned.
GetFen ==
    /\ script = << >>
    /\ calls_left > 0
    /\ Len(reads) < MaxReads
    /\ Record("get_fen", << >>, get_fen)
    /\ UNCHANGED <<game, ret, script, calls_left, board_state_seen,
                   call_stack>>

\* ChessGame.get_board_state() called by the caller: it returns the list
\* self.board_obj.board itself, not a copy.  The caller notes the grid it
\* shows at the time of the call.
GetBoardState ==
    /\ script = << >>
    /\ calls_left > 0
    /\ Len(reads) < MaxReads
    /\ Record("get_board_state", << >>, board)
    /\ board_state_seen' = board
    /\ UNCHANGED <<game, ret, script, calls_left, call_stack>>

\* What the caller's value from get_board_state() shows now: the value is
\* the game's own list, which Board.make_move assigns into cell by cell,
\* so it shows the grid as it is now.
board_state_held == IF board_state_seen = NoGrid THEN NoGrid ELSE board

NextReads == Replay \/ Play \/ GetFen \/ GetBoardState

SpecReads == Init /\ [][NextReads]_vars

\* ----------------------------------------------------------- queries

\* The number of queries the caller makes between two process_move calls.
MaxQueries == 1

\* Coordinates off the board, one before the first and one after the last.
OffBoard == {-1, 8}

\* The squares the caller names in its queries: squares of the board and
\* squares with a coordinate off it.
QueryFromSquares == {<<1, 6>>, <<6, 7>>, <<6, 4>>, <<7, 4>>, <<-1, 0>>}

QueryToSquares == {<<0, 6>>, <<7, 6>>}

OffBoardSquares == {<<8, 4>>, <<-1, 4>>, <<5, 8>>, <<2, -1>>, <<8, 8>>}

\* ChessGame.needs_promotion(from_sq, to_sq) called by the caller.
NeedsPromotion ==
    /\ script = << >>
    /\ Len(reads) < MaxQueries
    /\ \E from_sq \in QueryFromSquares, to_sq \in QueryToSquares :
           Record("needs_promotion", <<from_sq, to_sq>>,
                  needs_promotion(board, from_sq, to_sq))
    /\ UNCHANGED <<game, ret, script, calls_left, board_state_seen,
                   call_stack>>

\* Board.get_piece(r, c) called by the caller.
GetPiece ==
    /\ script = << >>
    /\ Len(reads) < MaxQueries
    /\ \E sq \in OffBoardSquares \cup {<<7, 4>>} :
           Record("get_piece", sq, get_piece(board, sq[1], sq[2]))
    /\ UNCHANGED <<game, ret, script, calls_left, board_state_seen,
                   call_stack>>

\* ChessGame.is_square_attacked(r_target, c_target, attacker_color) called
\* by the caller, on the game's own board.
IsSquareAttacked ==
    /\ script = << >>
    /\ Len(reads) < MaxQueries
    /\ \E sq \in OffBoardSquares \cup {<<5, 4>>},
          attacker_color \in {"W", "B"} :
           Record("is_square_attacked", <<sq[1], sq[2], attacker_color>>,
                  is_square_attacked(sq[1], sq[2], attacker_color, board))
    /\ UNCHANGED <<game, ret, script, calls_left, board_state_seen,
                   call_stack>>

\* board_after_simulations as it would be if the first candidate were
\* simulated on the grid itself instead of on a copy.
board_after_simulations_on_live_grid(self, candidates) ==
    IF candidates = << >> THEN self.board
    ELSE sim_board_state(self, candidates[1][1], candidates[1][2])

\* The grid of the game after get_all_legal_moves_for_player has run its
\* loop over the candidates: each simulation writes to sim_board_state, a
\* copy.deepcopy of the grid made for the candidate, and can_castle and
\* is_in_check only read the grid, so it is as it was.
board_after_simulations(self, candidates) == self.board

\* ChessGame.get_all_legal_moves_for_player(color) called by the caller.
GetAllLegalMoves ==
    /\ script = << >>
    /\ Len(reads) < MaxQueries
    /\ \E color \in {"W", "B"} :
           /\ Record("get_all_legal_moves_for_player", color,
                     get_all_legal_moves_for_player(Self, color))
           /\ board' = board_after_simulations(
                           Self, get_all_possible_moves_for_player(Self, color))
    /\ UNCHANGED <<move_history, current_player, castling_rights,
                   en_passant_target, halfmove_clock, fullmove_number,
                   status_message, game_over_message, ret, script,
                   calls_left, board_state_seen, call_stack>>

\* The process_move calls the caller makes with a square off the board:
\* from_sq off the board, or from_sq a square of the board and to_sq off it.
OffBoardCalls ==
    {<<f, <<4, 4>>, NoChoice>> : f \in OffBoardSquares}
    \cup {<<f, t, NoChoice>> : f \in {<<6, 4>>, <<1, 4>>, <<7, 4>>},
                               t \in {<<8, 4>>, <<-1, 4>>, <<4, 8>>}}
    \cup {<< <<1, 6>>, <<0, -1>>, "Q" >>, << <<-1, 4>>, <<8, 4>>, NoChoice >>}

\* The caller, its script replayed, calls process_move with a square off
\* the board.
PlayOffBoard ==
    /\ script = << >>
    /\ calls_left > 0
    /\ \E input \in OffBoardCalls :
           process_move(input[1], input[2], input[3],
                        get_all_legal_moves_for_player(Self, current_player),
                        is_in_check(current_player, board))
    /\ calls_left' = calls_left - 1
    /\ script' = script
    /\ reads' = << >>
    /\ board_state_seen' = board_state_seen
    /\ call_stack' = call_stack

NextQueries ==
    \/ Replay
    \/ PlayOffBoard
    \/ NeedsPromotion
    \/ GetPiece
    \/ IsSquareAttacked
    \/ GetAllLegalMoves

\* The scripted lines of the caller that queries.
QueryLines ==
    {<< >>, FoolsMate, CastlingReady, CastlingThroughCheck, EnPassant,
     EnPassantBlack, PromotionReady, PromotionReadyBlack, QueenCheck}

InitQueries == Init /\ script \in QueryLines

SpecQueries == InitQueries /\ [][NextQueries]_vars

\* ------------------------------------------------------------- calls

\* The number of times a loop of the code is taken to run its call, in
\* place of the 64 cells or the moves of a list it runs over.
MaxIter == 2

\* The number of calls in progress the stack may hold.
MaxDepth == 10

\* The functions that only loop over cells or offsets and call nothing of
\* the game.
SlidingMoveLists ==
    {"Rook.get_possible_moves", "Knight.get_possible_moves",
     "Bishop.get_possible_moves", "Queen.get_possible_moves"}

\* A call site of a function: the functions it may call there and the
\* number of calls it makes there at most.
Site(callees, max) == [callees |-> callees, max |-> max]

\* CallSites as it would be if is_square_attacked read a King's attacks off
\* King.get_possible_moves with the game as context.
CallSites_king_by_move_list(fn) ==
    CASE fn = "process_move" ->
             << Site({"Board.get_piece"}, 1),
                Site({"get_all_legal_moves_for_player"}, 1),
                Site({"is_in_check"}, 1),
                Site({"Board.get_piece"}, 1),
                Site({"Board.make_move"}, 1),
                Site({"Board.get_piece"}, 1),
                Site({"update_castling_rights"}, 1),
                Site({"Board.get_piece"}, 1),
                Site({"switch_player"}, 1),
                Site({"is_in_check"}, 1),
                Site({"get_all_legal_moves_for_player"}, 1) >>
      [] fn = "get_all_legal_moves_for_player" ->
             << Site({"get_all_possible_moves_for_player"}, 1),
                Site({"can_castle", "is_in_check"}, MaxIter) >>
      [] fn = "get_all_possible_moves_for_player" ->
             << Site(SlidingMoveLists
                     \cup {"Pawn.get_possible_moves",
                           "King.get_possible_moves"}, MaxIter) >>
      [] fn = "King.get_possible_moves" ->
             << Site({"can_castle"}, 1), Site({"can_castle"}, 1) >>
      [] fn = "can_castle" ->
             << Site({"is_in_check"}, 1),
                Site({"is_square_attacked"}, MaxIter) >>
      [] fn = "is_in_check" ->
             << Site({"find_king"}, 1), Site({"is_square_attacked"}, 1) >>
      [] fn = "is_square_attacked" ->
             << Site(SlidingMoveLists \cup {"King.get_possible_moves"},
                     MaxIter) >>
      [] fn = "Queen.get_possible_moves" ->
             << Site({"Rook.get_possible_moves"}, 1),
                Site({"Bishop.get_possible_moves"}, 1) >>
      [] OTHER -> << >>

\* The call sites of each function of chess_logic.py, in the order the
\* function reaches them.  A site in a loop is one site with the calls of
\* its iterations.  A function may leave a site with fewer calls made than
\* the code makes, or none, as it does when a condition is false or it
\* returns early, so the runs of the code are among those described here.
CallSites(fn) ==
    CASE fn = "process_move" ->
             << Site({"Board.get_piece"}, 1),
                Site({"get_all_legal_moves_for_player"}, 1),
                Site({"is_in_check"}, 1),
                Site({"Board.get_piece"}, 1),
                Site({"Board.make_move"}, 1),
                Site({"Board.get_piece"}, 1),
                Site({"update_castling_rights"}, 1),
                Site({"Board.get_piece"}, 1),
                Site({"switch_player"}, 1),
                Site({"is_in_check"}, 1),
                Site({"get_all_legal_moves_for_player"}, 1) >>
      [] fn = "get_all_legal_moves_for_player" ->
             << Site({"get_all_possible_moves_for_player"}, 1),
                Site({"can_castle", "is_in_check"}, MaxIter) >>
      [] fn = "get_all_possible_moves_for_player" ->
             << Site(SlidingMoveLists
                     \cup {"Pawn.get_possible_moves",
                           "King.get_possible_moves"}, MaxIter) >>
      [] fn = "King.get_possible_moves" ->
             << Site({"can_castle"}, 1), Site({"can_castle"}, 1) >>
      [] fn = "can_castle" ->
             << Site({"is_in_check"}, 1),
                Site({"is_square_attacked"}, MaxIter) >>
      [] fn = "is_in_check" ->
             << Site({"find_king"}, 1), Site({"is_square_attacked"}, 1) >>
      [] fn = "is_square_attacked" -> << Site(SlidingMoveLists, MaxIter) >>
      [] fn = "Queen.get_possible_moves" ->
             << Site({"Rook.get_possible_moves"}, 1),
                Site({"Bishop.get_possible_moves"}, 1) >>
      [] OTHER -> << >>

\* The call in progress that is running, and the site it has reached.
Top == call_stack[Len(call_stack)]

\* The top frame with one field changed.
WithTop(frame) == [call_stack EXCEPT ![Len(call_stack)] = frame]

\* The caller calls process_move or get_all_legal_moves_for_player.
Enter ==
    /\ call_stack = << >>
    /\ \E fn \in {"process_move", "get_all_legal_moves_for_player"} :
           call_stack' = << [fn |-> fn, site |-> 1, done |-> 0] >>
    /\ UNCHANGED <<game, ret, script, calls_left, reads, board_state_seen>>

\* The running function makes a call at the site it has reached.
Call ==
    /\ call_stack # << >>
    /\ Len(call_stack) < MaxDepth
    /\ Top.site <= Len(CallSites(Top.fn))
    /\ Top.done < CallSites(Top.fn)[Top.site].max
    /\ \E callee \in CallSites(Top.fn)[Top.site].callees :
           call_stack' =
               Append(WithTop([Top EXCEPT !.done = Top.done + 1]),
                      [fn |-> callee, site |-> 1, done |-> 0])
    /\ UNCHANGED <<game, ret, script, calls_left, reads, board_state_seen>>

\* The running function goes on to its next call site: the loop of the
\* site is over, or its condition was false.
Advance ==
    /\ call_stack # << >>
    /\ Top.site <= Len(CallSites(Top.fn))
    /\ call_stack' = WithTop([Top EXCEPT !.site = Top.site + 1, !.done = 0])
    /\ UNCHANGED <<game, ret, script, calls_left, reads, board_state_seen>>

\* The running function is past its last call site and returns.
Return ==
    /\ call_stack # << >>
    /\ Top.site > Len(CallSites(Top.fn))
    /\ call_stack' = SubSeq(call_stack, 1, Len(call_stack) - 1)
    /\ UNCHANGED <<game, ret, script, calls_left, reads, board_state_seen>>

InitCalls == Init /\ script = << >>

NextCalls == Enter \/ Call \/ Advance \/ Return

SpecCalls ==
    InitCalls /\ [][NextCalls]_vars /\ WF_vars(Call \/ Advance \/ Return)

\* ------------------------------------------------------------- reset

\* ResetGame as it would be if __init__ left game_over_message as it was.
ResetGame_keeping_game_over ==
    /\ board_state_seen = NoGrid
    /\ Len(reads) < MaxReads
    /\ board' = setup_pieces
    /\ move_history' = << >>
    /\ current_player' = "W"
    /\ castling_rights' = [color \in {"W", "B"} |-> [K |-> TRUE, Q |-> TRUE]]
    /\ en_passant_target' = NoSquare
    /\ halfmove_clock' = 0
    /\ fullmove_number' = 1
    /\ status_message' = "White's turn."
    /\ game_over_message' = game_over_message
    /\ Record("reset_game", << >>, "None")
    /\ script' = << >>
    /\ UNCHANGED <<ret, calls_left, board_state_seen, call_stack>>

\* ChessGame.reset_game() called by the caller, who drops what is left of
\* its script: self.__init__() runs again on the same object, making a new
\* Board (grid and move_history) and assigning every field of the game.
\* The caller here holds no grid of get_board_state(); one handed out
\* before would stay the old Board's.
ResetGame ==
    /\ board_state_seen = NoGrid
    /\ Len(reads) < MaxReads
    /\ board' = setup_pieces
    /\ move_history' = << >>
    /\ current_player' = "W"
    /\ castling_rights' = [color \in {"W", "B"} |-> [K |-> TRUE, Q |-> TRUE]]
    /\ en_passant_target' = NoSquare
    /\ halfmove_clock' = 0
    /\ fullmove_number' = 1
    /\ status_message' = "White's turn."
    /\ game_over_message' = NoMessage
    /\ Record("reset_game", << >>, "None")
    /\ script' = << >>
    /\ UNCHANGED <<ret, calls_left, board_state_seen, call_stack>>

\* The process_move calls the caller makes after reset_game(): one for each
\* move get_all_legal_moves_for_player lists, and two for moves it does not
\* list, from an empty square and from a square of the other side.
CallsAfterReset(legal_moves) ==
    {<<legal_moves[i][1], legal_moves[i][2], NoChoice>> :
        i \in 1 .. Len(legal_moves)}
    \cup {<< <<4, 4>>, <<0, 4>>, NoChoice >>, << <<0, 4>>, <<4, 4>>, NoChoice >>}

\* The caller, having called reset_game(), calls process_move.
PlayAfterReset ==
    /\ script = << >>
    /\ calls_left > 0
    /\ reads # << >>
    /\ reads[Len(reads)].op = "reset_game"
    /\ \E legal_moves \in
              {get_all_legal_moves_for_player(Self, current_player)},
          in_check \in {is_in_check(current_player, board)} :
           \E input \in CallsAfterReset(legal_moves) :
               process_move(input[1], input[2], input[3], legal_moves,
                            in_check)
    /\ calls_left' = calls_left - 1
    /\ script' = script
    /\ reads' = << >>
    /\ board_state_seen' = board_state_seen
    /\ call_stack' = call_stack

NextReset == Replay \/ GetFen \/ ResetGame \/ PlayAfterReset

SpecReset == Init /\ [][NextReset]_vars

\* ------------------------------------------------------------ claims

\* The board after Board.make_move applied the move with the default
\* promotion piece.
BoardAfter(from_sq, to_sq) == make_move(board, from_sq, to_sq, NoChoice).board

\* C1: in every reachable state and for either color, no move that
\* get_all_legal_moves_for_player returns leaves that color's own King
\* attacked once Board.make_move has applied it (displacement, castling
\* rook relocation, en-passant pawn removal).
C1_LegalMovesLeaveKingSafe ==
    \A color \in {"W", "B"} :
        \A legal \in {get_all_legal_moves_for_player(Self, color)} :
            \A i \in 1 .. Len(legal) :
                ~is_in_check(color, BoardAfter(legal[i][1], legal[i][2]))

\* C1's case: the side to move is in check, some of its candidate moves
\* are dropped and some are kept.
C1_Witness ==
    /\ ret = "True"
    /\ is_in_check(current_player, board)
    /\ Len(get_all_legal_moves_for_player(Self, current_player)) > 0
    /\ Len(get_all_legal_moves_for_player(Self, current_player))
           < Len(get_all_possible_moves_for_player(Self, current_player))

\* The move shape of the piece on (r, c) without the castling moves: what
\* its get_possible_moves returns, a pawn being given the en-passant target
\* and a King no game context.
MoveShape(r, c) ==
    LET piece == board[r][c]
    IN  CASE piece.kind = "P" ->
                 Pawn_get_possible_moves(piece, r, c, board, en_passant_target)
          [] piece.kind = "K" ->
                 King_get_possible_moves(Self, piece, r, c, board, FALSE)
          [] piece.kind = "R" -> Rook_get_possible_moves(piece.color, r, c, board)
          [] piece.kind = "N" -> Knight_get_possible_moves(piece.color, r, c, board)
          [] piece.kind = "B" -> Bishop_get_possible_moves(piece.color, r, c, board)
          [] piece.kind = "Q" -> Queen_get_possible_moves(piece.color, r, c, board)
          [] OTHER -> << >>

\* C2: for the side to move, no non-castling move of a piece's move shape
\* (a pawn's diagonal move onto the en-passant target included) that leaves
\* the mover's King unattacked once applied is missing from what
\* get_all_legal_moves_for_player returns, and every move it returns is
\* a move get_all_possible_moves_for_player lists.
C2_NoSafeMoveMissing ==
    \A legal \in {get_all_legal_moves_for_player(Self, current_player)} :
        /\ \A r \in Rows, c \in Rows :
               board[r][c].color = current_player =>
                   \A shape \in {MoveShape(r, c)} :
                       \A i \in 1 .. Len(shape) :
                           ~is_in_check(current_player,
                                        BoardAfter(<<r, c>>, shape[i]))
                               => InList(<< <<r, c>>, shape[i] >>, legal)
        /\ \A i \in 1 .. Len(legal) :
               LET from_sq == legal[i][1]
                   piece == board[from_sq[1]][from_sq[2]]
               IN  /\ piece.color = current_player
                   /\ \/ InList(legal[i][2], MoveShape(from_sq[1], from_sq[2]))
                      \/ piece.kind = "K" /\ Abs(legal[i][2][2] - from_sq[2]) = 2

\* C2's case: a pawn's diagonal move onto the empty en-passant target is
\* among the legal moves of the side to move.
C2_Witness ==
    /\ en_passant_target # NoSquare
    /\ \E f \in Squares :
           /\ board[f[1]][f[2]].kind = "P"
           /\ board[f[1]][f[2]].color = current_player
           /\ Abs(f[2] - en_passant_target[2]) = 1
           /\ InList(<<f, en_passant_target>>,
                     get_all_legal_moves_for_player(Self, current_player))

\* What a rejected call and a call answered "PROMOTION_NEEDED" must leave
\* as it was: the grid with every has_moved flag, the side to move, the
\* castling rights, the en-passant target, both clocks, game_over_message.
position == <<board, current_player, castling_rights, en_passant_target,
              halfmove_clock, fullmove_number, game_over_message>>

\* The status strings process_move leaves when it rejects a call.
RejectionMessages ==
    {"Invalid selection or not your turn.", "Illegal move.",
     "Illegal move. W is in check!", "Illegal move. B is in check!"}

\* The calls the caller can make in the current state.
CallsNow(legal_moves) ==
    CallerInputs(legal_moves)
    \cup (IF script # << >> THEN {Head(script)} ELSE {})

\* The call is one process_move rejects: the game is over, there is no
\* piece on from_sq, the piece there is not of the side to move, or the
\* move is not among the legal moves of the side to move.
IsRejected(input, legal_moves) ==
    \/ game_over_message # NoMessage
    \/ board[input[1][1]][input[1][2]].kind = "None"
    \/ board[input[1][1]][input[1][2]].color # current_player
    \/ ~InList(<<input[1], input[2]>>, legal_moves)

\* C3: a process_move call that is rejected (the game is over, there is no
\* piece of the side to move on from_sq, or the move is not legal) returns
\* False, and a call that returns False leaves the position as it was and,
\* unless the game is over, one of the rejection status strings.
C3_RejectedCallKeepsPosition ==
    [][/\ \A legal_moves \in
                 {get_all_legal_moves_for_player(Self, current_player)} :
              \A input \in CallsNow(legal_moves) :
                  /\ IsRejected(input, legal_moves)
                  /\ process_move(input[1], input[2], input[3], legal_moves,
                                  is_in_check(current_player, board))
                  => ret' = "False"
       /\ ret' = "False" =>
              /\ UNCHANGED position
              /\ move_history' = move_history
              /\ game_over_message = NoMessage =>
                     status_message' \in RejectionMessages]_vars

\* C3's case: a call was rejected while an en-passant target was pending,
\* and the target is still there.
C3_Witness ==
    /\ ret = "False"
    /\ status_message = "Illegal move."
    /\ en_passant_target # NoSquare

\* The call is one for a legal move of a pawn onto its farthest rank, made
\* without a promotion choice.
AsksPromotion(input, legal_moves) ==
    /\ InList(<<input[1], input[2]>>, legal_moves)
    /\ board[input[1][1]][input[1][2]].kind = "P"
    /\ input[2][1] = (IF current_player = "W" THEN 0 ELSE 7)
    /\ input[3] = NoChoice

\* A pawn of the side to move stands on the rank before its farthest rank,
\* the only rank a pawn's move shape reaches the farthest rank from.
PawnBeforeLastRank ==
    \E c \in Rows :
        /\ board[IF current_player = "W" THEN 1 ELSE 6][c].kind = "P"
        /\ board[IF current_player = "W" THEN 1 ELSE 6][c].color = current_player

\* C4: a call made without a promotion choice for a legal move of a pawn
\* onto its farthest rank returns "PROMOTION_NEEDED"; a call that returns
\* "PROMOTION_NEEDED" is such a call (the move is in the legal moves of the
\* side to move) and leaves the position as it was.
C4_PromotionNeededOnlyForLegalMove ==
    [][ret' = "PROMOTION_NEEDED" \/ PawnBeforeLastRank =>
          \A legal_moves \in
                 {get_all_legal_moves_for_player(Self, current_player)} :
              /\ \A input \in CallsNow(legal_moves) :
                     /\ AsksPromotion(input, legal_moves)
                     /\ process_move(input[1], input[2], input[3], legal_moves,
                                     is_in_check(current_player, board))
                     => ret' = "PROMOTION_NEEDED"
              /\ ret' = "PROMOTION_NEEDED" =>
                     /\ UNCHANGED position
                     /\ move_history' = move_history
                     /\ \A input \in CallsNow(legal_moves) :
                            process_move(input[1], input[2], input[3],
                                         legal_moves,
                                         is_in_check(current_player, board))
                                => AsksPromotion(input, legal_moves)]_vars

\* C4's case: the signal was returned with a pawn of the side to move one
\* step from its farthest rank.
C4_Witness ==
    /\ ret = "PROMOTION_NEEDED"
    /\ \E c \in Rows :
           board[IF current_player = "W" THEN 1 ELSE 6][c] =
               [kind |-> "P", color |-> current_player, has_moved |-> TRUE]

\* C5: a call that returns "PROMOTION_NEEDED" leaves status_message as it
\* was.
C5_PromotionNeededKeepsStatus ==
    [][ret' = "PROMOTION_NEEDED" => status_message' = status_message]_vars

\* C6: once game_over_message is set, every process_move call returns
\* False and changes nothing of the game, status_message included.
C6_GameOverIsTerminal ==
    [][game_over_message # NoMessage =>
          ret' = "False" /\ UNCHANGED game]_vars

\* C6's case: a call was made after the game had ended.
C6_Witness ==
    /\ game_over_message # NoMessage
    /\ ret = "False"

\* C7: a castling-rights flag that is false stays false.
C7_CastlingRightsMonotone ==
    [][\A color \in {"W", "B"}, side \in {"K", "Q"} :
           ~castling_rights[color][side] => ~castling_rights'[color][side]]_vars

\* C7's case: Black lost one right to a capture and has then moved the Rook
\* of its other corner.
C7_Witness ==
    /\ ret = "True"
    /\ last_move.piece.kind = "R"
    /\ last_move.from = <<0, 0>>
    /\ board[0][7].color = "W"
    /\ ~castling_rights["B"]["K"]

\* The piece the move made by the step stood on its from square.
MovedPiece ==
    board[last_move'.from[1]][last_move'.from[2]]

HomeRow(color) == IF color = "W" THEN 7 ELSE 0

\* C8: after a successful move of a King (castling included) both rights
\* of the mover are false; after one of a Rook from the mover's home corner
\* on file 0 (file 7) the mover's queenside (kingside) right is false and
\* the mover's other right is as it was.
C8_MoverLosesRights ==
    [][ret' = "True" =>
          LET color == MovedPiece.color
              from_sq == last_move'.from
          IN  /\ MovedPiece.kind = "K" =>
                     /\ ~castling_rights'[color]["K"]
                     /\ ~castling_rights'[color]["Q"]
              /\ MovedPiece.kind = "R" /\ from_sq = <<HomeRow(color), 0>> =>
                     /\ ~castling_rights'[color]["Q"]
                     /\ castling_rights'[color]["K"] = castling_rights[color]["K"]
              /\ MovedPiece.kind = "R" /\ from_sq = <<HomeRow(color), 7>> =>
                     /\ ~castling_rights'[color]["K"]
                     /\ castling_rights'[color]["Q"] = castling_rights[color]["Q"]
      ]_vars

\* C8's case: White has just castled.
C8_Witness ==
    /\ ret = "True"
    /\ last_move.was_castling
    /\ last_move.piece.color = "W"
    /\ castling_rights["W"] = [K |-> FALSE, Q |-> FALSE]

\* C9: after a successful move that captures a Rook on the home corner of
\* the Rook's color, that color's right of that corner is false, whatever
\* piece captured; a Rook captured anywhere else leaves the rights of its
\* color as they were.
C9_CapturedRookLosesRight ==
    [][ret' = "True" /\ last_move'.captured.kind = "R" =>
          LET cap_color == last_move'.captured.color
              to_sq == last_move'.to
          IN  /\ to_sq = <<HomeRow(cap_color), 0>> =>
                     ~castling_rights'[cap_color]["Q"]
              /\ to_sq = <<HomeRow(cap_color), 7>> =>
                     ~castling_rights'[cap_color]["K"]
              /\ to_sq \notin {<<HomeRow(cap_color), 0>>,
                               <<HomeRow(cap_color), 7>>} =>
                     castling_rights'[cap_color] = castling_rights[cap_color]
      ]_vars

\* C9's case: a pawn has promoted by capturing Black's Rook on h8, and
\* Black has lost the kingside right and kept the queenside one.
C9_Witness ==
    /\ ret = "True"
    /\ last_move.captured = [kind |-> "R", color |-> "B",
                                   has_moved |-> FALSE]
    /\ last_move.to = <<0, 7>>
    /\ last_move.from[1] = 1
    /\ last_move.piece.kind \in {"Q", "R", "B", "N"}
    /\ castling_rights["B"] = [K |-> FALSE, Q |-> TRUE]

\* C10: after a successful move the en-passant target is the square the
\* pawn passed over when the move was a pawn's advance of two squares, and
\* is None after any other move.
C10_EnPassantTargetFollowsMove ==
    [][ret' = "True" =>
          LET from_sq == last_move'.from
              to_sq == last_move'.to
          IN  en_passant_target' =
                  IF MovedPiece.kind = "P" /\ Abs(to_sq[1] - from_sq[1]) = 2
                  THEN <<(from_sq[1] + to_sq[1]) \div 2, from_sq[2]>>
                  ELSE NoSquare]_vars

\* C10's case: a move other than a double step was made right after a
\* double step, and no target is left (Black's d-pawn stands on d5 unmoved
\* since its double step, White has moved again).
C10_Witness ==
    /\ ret = "True"
    /\ current_player = "B"
    /\ fullmove_number = 3
    /\ board[3][3] = [kind |-> "P", color |-> "B", has_moved |-> TRUE]
    /\ board[4][4].kind = "None"
    /\ board[3][4] = [kind |-> "P", color |-> "W", has_moved |-> TRUE]
    /\ last_move.piece.kind # "P"
    /\ en_passant_target = NoSquare

\* C11: a pawn's move of one file diagonally onto an empty square is among
\* the legal moves of the side to move only when the move made last was a
\* two-square advance of an opposing pawn and the destination is the square
\* that pawn passed over; so a capture not taken at once is not offered on
\* any later ply.
C11_EnPassantOnlyRightAfterDoubleStep ==
    \A legal_moves \in {get_all_legal_moves_for_player(Self, current_player)} :
        \A i \in 1 .. Len(legal_moves) :
            LET from_sq == legal_moves[i][1]
                to_sq == legal_moves[i][2]
            IN  /\ board[from_sq[1]][from_sq[2]].kind = "P"
                /\ Abs(to_sq[2] - from_sq[2]) = 1
                /\ board[to_sq[1]][to_sq[2]] = NoPiece
                => /\ move_history # << >>
                   /\ last_move.piece.kind = "P"
                   /\ last_move.piece.color = opponent(current_player)
                   /\ last_move.from[2] = last_move.to[2]
                   /\ Abs(last_move.to[1] - last_move.from[1]) = 2
                   /\ to_sq = <<(last_move.from[1] + last_move.to[1]) \div 2,
                                last_move.from[2]>>

\* C11's case: Black's d-pawn went d7-d5 beside White's pawn on e5, both
\* sides then played something else, and the capture e5xd6 is not among
\* White's legal moves.
C11_Witness ==
    /\ current_player = "W"
    /\ Len(move_history) >= 6
    /\ move_history[4].piece.kind = "P"
    /\ move_history[4].from = <<1, 3>>
    /\ move_history[4].to = <<3, 3>>
    /\ board[3][3] = [kind |-> "P", color |-> "B", has_moved |-> TRUE]
    /\ board[3][4] = [kind |-> "P", color |-> "W", has_moved |-> TRUE]
    /\ board[2][3] = NoPiece
    /\ ~InList(<< <<3, 4>>, <<2, 3>> >>,
               get_all_legal_moves_for_player(Self, current_player))

\* The move made last was a pawn's advance of two squares.
JustDoubleStepped ==
    /\ move_history # << >>
    /\ last_move.piece.kind = "P"
    /\ Abs(last_move.to[1] - last_move.from[1]) = 2

\* The squares beside the pawn that made the last move, same rank and an
\* adjacent file, that hold a pawn of the side to move.
PawnsBeside ==
    {sq \in Squares :
        /\ sq[1] = last_move.to[1]
        /\ Abs(sq[2] - last_move.to[2]) = 1
        /\ board[sq[1]][sq[2]].kind = "P"
        /\ board[sq[1]][sq[2]].color = current_player}

\* A step that played a pawn one file diagonally onto an empty square.
PlayedEnPassant ==
    /\ ret' = "True"
    /\ MovedPiece.kind = "P"
    /\ Abs(last_move'.to[2] - last_move'.from[2]) = 1
    /\ board[last_move'.to[1]][last_move'.to[2]] = NoPiece

\* C12: when a pawn has just advanced two squares and stands beside a pawn
\* of the side to move, that pawn's diagonal move onto the en-passant
\* target is among the legal moves unless it leaves its own King attacked;
\* a call that plays it returns True, and the move puts the capturing pawn
\* on the empty target square, removes the double-stepped pawn from the
\* square of the capturer's rank and the target's file, and changes no
\* other square.
C12_EnPassantCaptureIsOfferedAndMade ==
    /\ [](JustDoubleStepped =>
            \A sq \in PawnsBeside :
                \/ InList(<<sq, en_passant_target>>,
                          get_all_legal_moves_for_player(Self, current_player))
                \/ is_in_check(current_player, BoardAfter(sq, en_passant_target)))
    /\ [][/\ JustDoubleStepped /\ PawnsBeside # {} =>
                 \A legal_moves \in
                        {get_all_legal_moves_for_player(Self, current_player)} :
                     \A sq \in PawnsBeside :
                         /\ InList(<<sq, en_passant_target>>, legal_moves)
                         /\ process_move(sq, en_passant_target, NoChoice,
                                         legal_moves,
                                         is_in_check(current_player, board))
                         => ret' = "True"
          /\ PlayedEnPassant =>
                 LET from_sq == last_move'.from
                     to_sq == last_move'.to
                     mover == current_player
                 IN  /\ to_sq = en_passant_target
                     /\ from_sq \in PawnsBeside
                     /\ board[from_sq[1]][to_sq[2]] =
                            [kind |-> "P", color |-> opponent(mover),
                             has_moved |-> TRUE]
                     /\ last_move.to = <<from_sq[1], to_sq[2]>>
                     /\ board' =
                            [board EXCEPT
                                ![to_sq[1]][to_sq[2]] =
                                    [kind |-> "P", color |-> mover,
                                     has_moved |-> TRUE],
                                ![from_sq[1]][from_sq[2]] = NoPiece,
                                ![from_sq[1]][to_sq[2]] = NoPiece]]_vars

\* C12's case: the capture has been played and the double-stepped pawn is
\* gone from the square beside the capturer's origin.
C12_Witness ==
    /\ ret = "True"
    /\ last_move.was_ep
    /\ last_move.captured.kind = "P"
    /\ board[last_move.to[1]][last_move.to[2]].kind = "P"
    /\ board[last_move.from[1]][last_move.to[2]] = NoPiece

\* The number of pieces of the color on the grid.
PieceCount(board_state, color) ==
    Cardinality({sq \in Squares : board_state[sq[1]][sq[2]].color = color})

\* C13: after a successful move the halfmove clock is 0 when the piece
\* moved was a pawn (promoting and capturing en passant included) or the
\* opponent lost a piece, and its previous value plus 1 otherwise; castling
\* is neither.
C13_HalfmoveClock ==
    [][ret' = "True" =>
          /\ halfmove_clock' =
                 IF \/ MovedPiece.kind = "P"
                    \/ PieceCount(board', opponent(current_player))
                           < PieceCount(board, opponent(current_player))
                 THEN 0 ELSE halfmove_clock + 1
          /\ last_move'.was_castling =>
                 halfmove_clock' = halfmove_clock + 1]_vars

\* C13's case: a castling move was made seven plies after the last pawn
\* move or capture.
C13_Witness ==
    /\ ret = "True"
    /\ last_move.was_castling
    /\ halfmove_clock = 7

\* C14: before any call the side to move is White; a call that returns
\* True hands the move to the other color, and a call that returns False
\* or "PROMOTION_NEEDED" leaves the side to move as it was.
C14_SideToMoveAlternates ==
    /\ [](move_history = << >> => current_player = "W")
    /\ [][/\ ret' = "True" =>
                 /\ current_player' # current_player
                 /\ current_player' \in {"W", "B"}
                 /\ last_move'.piece.color = current_player
          /\ ret' # "True" => current_player' = current_player]_vars

\* C14's case: White and Black have each moved twice and it is White's
\* turn again.
C14_Witness ==
    /\ ret = "True"
    /\ Len(move_history) = 4
    /\ \A i \in 1 .. 4 :
           move_history[i].piece.color = (IF i % 2 = 1 THEN "W" ELSE "B")
    /\ current_player = "W"

\* The number of moves Black has made.
BlackMovesPlayed ==
    Cardinality({i \in 1 .. Len(move_history) :
                    move_history[i].piece.color = "B"})

\* C15: the fullmove number is 1 plus the number of moves Black has made
\* (1 before any move); a successful move by Black increases it by exactly
\* 1, and a successful move by White and every unsuccessful call leave it
\* as it was.
C15_FullmoveNumber ==
    /\ [](fullmove_number = 1 + BlackMovesPlayed)
    /\ [][fullmove_number' =
              IF ret' = "True" /\ current_player = "B"
              THEN fullmove_number + 1 ELSE fullmove_number]_vars

\* C15's case: Black has moved twice, White three times, and a call has
\* then been rejected.
C15_Witness ==
    /\ ret = "False"
    /\ Len(move_history) = 5
    /\ BlackMovesPlayed = 2
    /\ fullmove_number = 3

CheckmateMessages == {"Checkmate! White wins.", "Checkmate! Black wins."}

\* C16: after a successful move game_over_message reports checkmate exactly
\* when the new side to move is in check and has no legal move, and then
\* it names the color that made the move as the winner.
C16_CheckmateReported ==
    ret = "True" =>
        \A legal_moves \in
               {get_all_legal_moves_for_player(Self, current_player)} :
            LET mated == /\ is_in_check(current_player, board)
                         /\ Len(legal_moves) = 0
            IN  /\ game_over_message \in CheckmateMessages <=> mated
                /\ mated =>
                       game_over_message =
                           (IF last_move.piece.color = "W"
                            THEN "Checkmate! White wins."
                            ELSE "Checkmate! Black wins.")

\* C16's case: White has just mated Black.
C16_Witness ==
    /\ ret = "True"
    /\ last_move.piece.color = "W"
    /\ is_in_check("B", board)
    /\ get_all_legal_moves_for_player(Self, "B") = << >>
    /\ game_over_message = "Checkmate! White wins."

\* C17: after a successful move game_over_message reports stalemate exactly
\* when the new side to move is not in check and has no legal move, and it
\* is None whenever the new side to move has a legal move.
C17_StalemateReported ==
    ret = "True" =>
        \A legal_moves \in
               {get_all_legal_moves_for_player(Self, current_player)} :
            /\ game_over_message = "Stalemate! It's a draw."
                   <=> /\ ~is_in_check(current_player, board)
                       /\ Len(legal_moves) = 0
            /\ Len(legal_moves) > 0 => game_over_message = NoMessage

\* C17's case: the side to move is not in check, has no legal move, and
\* the move that left it so has just been made.
C17_Witness ==
    /\ ret = "True"
    /\ ~is_in_check(current_player, board)
    /\ get_all_legal_moves_for_player(Self, current_player) = << >>
    /\ game_over_message = "Stalemate! It's a draw."

\* The moves made so far are the first n calls of the Fool's mate script.
FoolsMatePlayed(n) ==
    /\ Len(move_history) = n
    /\ \A i \in 1 .. n :
           /\ move_history[i].from = FoolsMate[i][1]
           /\ move_history[i].to = FoolsMate[i][2]

\* C18: on a fresh game the four calls f2-f3, e7-e5, g2-g4, d8-h4 each
\* return True, and after the last one White is in check with no legal
\* move and game_over_message reports checkmate with Black as winner.
C18_FoolsMate ==
    /\ [](FoolsMatePlayed(4) =>
              /\ current_player = "W"
              /\ is_in_check("W", board)
              /\ get_all_legal_moves_for_player(Self, "W") = << >>
              /\ game_over_message = "Checkmate! Black wins.")
    /\ [][/\ script # << >>
          /\ Len(move_history) + Len(script) = 4
          /\ script = SubSeq(FoolsMate, Len(move_history) + 1, 4)
          /\ FoolsMatePlayed(Len(move_history))
          => /\ ret' = "True"
             /\ Len(move_history') = Len(move_history) + 1
             /\ last_move'.from = Head(script)[1]
             /\ last_move'.to = Head(script)[2]]_vars

\* C18's case: the four calls have been made and the Queen stands on h4.
C18_Witness ==
    /\ FoolsMatePlayed(4)
    /\ ret = "True"
    /\ script = << >>
    /\ board[4][7] = [kind |-> "Q", color |-> "B", has_moved |-> TRUE]
    /\ game_over_message = "Checkmate! Black wins."

\* C19: on a game on which no move has been made get_fen() returns
\* "rnbqkbnr/pppppppp/8/8/8/8/PPPPPPPP/RNBQKBNR w KQkq - 0 1".
C19_InitialFen ==
    move_history = << >> =>
        get_fen = "rnbqkbnr/pppppppp/8/8/8/8/PPPPPPPP/RNBQKBNR w KQkq - 0 1"

\* C19's case: the game as constructed, no call made yet.
C19_Witness ==
    /\ ret = "None"
    /\ move_history = << >>
    /\ board = setup_pieces
    /\ Len(get_fen) = 56

\* C20: in the initial position get_all_legal_moves_for_player("W")
\* returns exactly 20 moves, no (from, to) pair twice.
C20_TwentyMovesInitially ==
    move_history = << >> =>
        \A legal_moves \in {get_all_legal_moves_for_player(Self, "W")} :
            /\ current_player = "W"
            /\ Len(legal_moves) = 20
            /\ Cardinality({legal_moves[i] : i \in 1 .. Len(legal_moves)}) = 20

\* C20's case: the initial position, with the two knight moves of b1 and
\* the double step of the e-pawn among White's legal moves.
C20_Witness ==
    /\ move_history = << >>
    /\ board = setup_pieces
    /\ InList(<< <<7, 1>>, <<5, 2>> >>,
              get_all_legal_moves_for_player(Self, current_player))
    /\ InList(<< <<7, 1>>, <<5, 0>> >>,
              get_all_legal_moves_for_player(Self, current_player))
    /\ InList(<< <<6, 4>>, <<4, 4>> >>,
              get_all_legal_moves_for_player(Self, current_player))

\* The destination file of the castling move of a side, and the files
\* strictly between the King's and the Rook's home squares.
CastlingFile(side) == IF side = "K" THEN 6 ELSE 2

FilesBetween(side) == IF side = "K" THEN {5, 6} ELSE {1, 2, 3}

\* What chess asks of a castling move of the color to the side: the right
\* is set, the King stands unmoved on its home square and a Rook of the
\* color unmoved on the side's home corner, the squares between them are
\* empty, the King is not in check, and the square it passes over and the
\* square it lands on are not attacked.
CastlingConditions(color, side) ==
    LET home == HomeRow(color)
        corner == IF side = "K" THEN 7 ELSE 0
        passed == IF side = "K" THEN 5 ELSE 3
    IN  /\ castling_rights[color][side]
        /\ board[home][4] = [kind |-> "K", color |-> color, has_moved |-> FALSE]
        /\ board[home][corner] =
               [kind |-> "R", color |-> color, has_moved |-> FALSE]
        /\ \A c \in FilesBetween(side) : board[home][c] = NoPiece
        /\ ~is_in_check(color, board)
        /\ ~is_square_attacked(home, passed, opponent(color), board)
        /\ ~is_square_attacked(home, CastlingFile(side), opponent(color), board)

\* C21: a King move of two files is among the legal moves of the side to
\* move only from the King's home square and when the castling conditions
\* of that side hold.
C21_CastlingOnlyWhenAllowed ==
    \A legal_moves \in {get_all_legal_moves_for_player(Self, current_player)} :
        \A i \in 1 .. Len(legal_moves) :
            LET from_sq == legal_moves[i][1]
                to_sq == legal_moves[i][2]
            IN  /\ board[from_sq[1]][from_sq[2]].kind = "K"
                /\ Abs(to_sq[2] - from_sq[2]) = 2
                => /\ from_sq = <<HomeRow(current_player), 4>>
                   /\ to_sq[1] = from_sq[1]
                   /\ CastlingConditions(current_player,
                                         IF to_sq[2] > from_sq[2] THEN "K"
                                         ELSE "Q")

\* C21's case: White's King and kingside Rook are unmoved with the right
\* set and f1, g1 empty, Black's Bishop on a6 attacks f1, and the move
\* e1-g1 is not among White's legal moves while the Rook's h1-g1 is.
C21_Witness ==
    /\ current_player = "W"
    /\ castling_rights["W"]["K"]
    /\ board[7][4] = [kind |-> "K", color |-> "W", has_moved |-> FALSE]
    /\ board[7][7] = [kind |-> "R", color |-> "W", has_moved |-> FALSE]
    /\ board[7][5] = NoPiece /\ board[7][6] = NoPiece
    /\ ~is_in_check("W", board)
    /\ is_square_attacked(7, 5, "B", board)
    /\ ~InList(<< <<7, 4>>, <<7, 6>> >>,
               get_all_legal_moves_for_player(Self, "W"))
    /\ InList(<< <<7, 7>>, <<7, 6>> >>,
              get_all_legal_moves_for_player(Self, "W"))

\* C22: when the castling conditions of a side hold for the side to move,
\* the King's move from the e-file to the g-file (c-file) is among its
\* legal moves, and a call that plays it returns True and is recorded as
\* castling.
C22_CastlingOfferedAndAccepted ==
    /\ [](\A side \in {"K", "Q"} :
              CastlingConditions(current_player, side)
              => InList(<< <<HomeRow(current_player), 4>>,
                           <<HomeRow(current_player), CastlingFile(side)>> >>,
                        get_all_legal_moves_for_player(Self, current_player)))
    /\ [][\A side \in {"K", "Q"} :
              /\ CastlingConditions(current_player, side)
              /\ process_move(<<HomeRow(current_player), 4>>,
                              <<HomeRow(current_player), CastlingFile(side)>>,
                              NoChoice,
                              get_all_legal_moves_for_player(Self, current_player),
                              FALSE)
              => /\ ret' = "True"
                 /\ last_move'.was_castling
                 /\ board'[HomeRow(current_player)][CastlingFile(side)].kind = "K"]_vars

\* C22's case: Black has just castled queenside.
C22_Witness ==
    /\ ret = "True"
    /\ last_move.was_castling
    /\ last_move.from = <<0, 4>>
    /\ last_move.to = <<0, 2>>
    /\ board[0][2] = [kind |-> "K", color |-> "B", has_moved |-> TRUE]
    /\ board[0][3] = [kind |-> "R", color |-> "B", has_moved |-> TRUE]

\* The first index from i on at which the string s has the character sep,
\* Len(s) + 1 when there is none.
RECURSIVE str_find(_, _, _)
str_find(s, sep, i) ==
    IF i > Len(s) \/ SubSeq(s, i, i) = sep THEN i
    ELSE str_find(s, sep, i + 1)

\* The fields of the string s between occurrences of the character sep.
RECURSIVE str_split(_, _)
str_split(s, sep) ==
    LET i == str_find(s, sep, 1)
    IN  IF i > Len(s) THEN <<s>>
        ELSE <<SubSeq(s, 1, i - 1)>>
             \o str_split(SubSeq(s, i + 1, Len(s)), sep)

\* The characters ToString writes for the numbers 0 .. 9.
IsDigit(ch) == \E n \in 0 .. 9 : ToString(n) = ch

digit_value(ch) == CHOOSE n \in 0 .. 9 : ToString(n) = ch

\* The cells a rank of the placement field accounts for, read back from
\* the text: a piece letter for itself, a digit for that many "." cells.
RECURSIVE rank_cells(_)
rank_cells(s) ==
    IF Len(s) = 0 THEN << >>
    ELSE (IF IsDigit(SubSeq(s, 1, 1))
          THEN [i \in 1 .. digit_value(SubSeq(s, 1, 1)) |-> "."]
          ELSE <<SubSeq(s, 1, 1)>>)
         \o rank_cells(SubSeq(s, 2, Len(s)))

\* What a FEN text shows on the cell (r, c): the letter it holds there.
fen_cell(fen, r, c) ==
    rank_cells(str_split(Head(str_split(fen, " ")), "/")[r + 1])[c + 1]

\* The number of pawns of a color on a grid.
PawnCount(board_state, color) ==
    Cardinality({sq \in Squares :
                     /\ board_state[sq[1]][sq[2]].kind = "P"
                     /\ board_state[sq[1]][sq[2]].color = color})

\* The letters that name a promotion piece.
PromotionLetters == {"Q", "R", "B", "N"}

\* C23: a call with a promotion choice that moves a pawn onto its farthest
\* rank and returns True leaves on the destination a piece of the mover's
\* color marked as moved, of the kind the choice names when it is one of
\* Q, R, B, N (the letter read without regard to case) and a Queen for any
\* other choice; the origin is empty, the mover has one pawn fewer, and
\* get_fen() shows the new piece's letter on the destination.
C23_PromotionPutsChosenPiece ==
    [][PawnBeforeLastRank =>
          \A legal_moves \in
                 {get_all_legal_moves_for_player(Self, current_player)} :
              \A input \in CallsNow(legal_moves) :
                  /\ input[3] # NoChoice
                  /\ board[input[1][1]][input[1][2]].kind = "P"
                  /\ input[2][1] = (IF current_player = "W" THEN 0 ELSE 7)
                  /\ process_move(input[1], input[2], input[3], legal_moves,
                                  is_in_check(current_player, board))
                  /\ ret' = "True"
                  => /\ board'[input[2][1]][input[2][2]].color = current_player
                     /\ board'[input[2][1]][input[2][2]].has_moved
                     /\ input[3] \in PromotionLetters =>
                            board'[input[2][1]][input[2][2]].kind = input[3]
                     /\ Upper(input[3]) \in PromotionLetters =>
                            board'[input[2][1]][input[2][2]].kind
                                = Upper(input[3])
                     /\ Upper(input[3]) \notin PromotionLetters =>
                            board'[input[2][1]][input[2][2]].kind = "Q"
                     /\ board'[input[1][1]][input[1][2]] = NoPiece
                     /\ PawnCount(board', current_player)
                            = PawnCount(board, current_player) - 1
                     /\ fen_cell(get_fen', input[2][1], input[2][2])
                            = symbol(board'[input[2][1]][input[2][2]])]_vars

\* C23's case: Black's pawn has just captured on g1 with the choice "X"
\* or "Q" and a black Queen stands there in its place, shown as q in the
\* seventh cell of the FEN's last rank.
C23_Witness ==
    /\ ret = "True"
    /\ last_move.from = <<6, 7>>
    /\ last_move.to = <<7, 6>>
    /\ last_move.captured # NoPiece
    /\ board[7][6] = [kind |-> "Q", color |-> "B", has_moved |-> TRUE]
    /\ fen_cell(get_fen, 7, 6) = "q"
    /\ PawnCount(board, "B") = 7

\* The caller has just made a query, the last of reads.
Queried(op) ==
    /\ Len(reads') = Len(reads) + 1
    /\ reads'[Len(reads')].op = op

\* The rank farthest from a color's own back rank.
FarthestRank(color) == IF color = "W" THEN 0 ELSE 7

\* C24: needs_promotion(from, to) is true exactly when a Pawn stands on
\* from and to's rank is the farthest rank for that pawn's color, whether
\* or not the move is legal, and a call of it changes nothing of the game.
C24_NeedsPromotionIffPawnToFarthestRank ==
    /\ [](\A from_sq \in Squares, to_sq \in Squares :
              needs_promotion(board, from_sq, to_sq)
                  <=> /\ board[from_sq[1]][from_sq[2]].kind = "P"
                      /\ to_sq[1]
                             = FarthestRank(board[from_sq[1]][from_sq[2]].color))
    /\ [][Queried("needs_promotion") =>
              LET from_sq == reads'[Len(reads')].args[1]
                  to_sq == reads'[Len(reads')].args[2]
              IN  /\ UNCHANGED <<game, ret>>
                  /\ reads'[Len(reads')].result
                         <=> /\ InRange(from_sq[1], from_sq[2])
                             /\ board[from_sq[1]][from_sq[2]].kind = "P"
                             /\ to_sq[1] = FarthestRank(
                                    board[from_sq[1]][from_sq[2]].color)]_vars

\* C24's case: in the initial position the caller asked about the pawn on
\* e2 going to g8, a move that is not legal, and was told TRUE.
C24_Witness ==
    /\ move_history = << >>
    /\ reads # << >>
    /\ reads[1].op = "needs_promotion"
    /\ reads[1].args = << <<6, 4>>, <<0, 6>> >>
    /\ reads[1].result
    /\ ~InList(<< <<6, 4>>, <<0, 6>> >>,
               get_all_legal_moves_for_player(Self, "W"))

C26_BoardStateIsSnapshot ==
    board_state_seen # NoGrid => board_state_held = board_state_seen

\* The piece letters of a placement field.
PieceLetters ==
    {"P", "R", "N", "B", "Q", "K", "p", "r", "n", "b", "q", "k"}

\* A rank of the placement field is well formed: piece letters and the
\* digits 1 .. 8 only, no digit next to a digit, eight cells in all.
RankWellFormed(s) ==
    /\ \A i \in 1 .. Len(s) :
           \/ SubSeq(s, i, i) \in PieceLetters
           \/ /\ IsDigit(SubSeq(s, i, i))
              /\ digit_value(SubSeq(s, i, i)) \in 1 .. 8
              /\ i < Len(s) => ~IsDigit(SubSeq(s, i + 1, i + 1))
    /\ Len(rank_cells(s)) = 8

\* The text is a decimal numeral without sign.
IsNumeral(s) ==
    /\ Len(s) > 0
    /\ \A i \in 1 .. Len(s) : IsDigit(SubSeq(s, i, i))

\* The number a decimal numeral writes.
RECURSIVE numeral_value(_)
numeral_value(s) ==
    IF Len(s) = 0 THEN 0
    ELSE 10 * numeral_value(SubSeq(s, 1, Len(s) - 1))
         + digit_value(SubSeq(s, Len(s), Len(s)))

\* The castling fields FEN allows: "-", or letters of KQkq in that order.
CastlingFields ==
    {"-"} \cup ({k \o q \o bk \o bq : k \in {"", "K"}, q \in {"", "Q"},
                                    bk \in {"", "k"}, bq \in {"", "q"}}
                \ {""})

\* C27: get_fen() is a well-formed FEN text of six fields: eight ranks of
\* eight cells each with no two digits adjacent; "w" or "b" as the side to
\* move is White or Black; "-" or letters of KQkq in that order; "-" or a
\* square of rank 3 when Black is to move and of rank 6 when White is; a
\* halfmove clock of at least 0 and a fullmove number of at least 1.
C27_FenWellFormed ==
    \A fen \in {get_fen} :
        \A fields \in {str_split(fen, " ")} :
            /\ Len(fields) = 6
            /\ \A ranks \in {str_split(fields[1], "/")} :
                   /\ Len(ranks) = 8
                   /\ \A r \in 1 .. 8 : RankWellFormed(ranks[r])
            /\ fields[2] = (IF current_player = "W" THEN "w" ELSE "b")
            /\ fields[3] \in CastlingFields
            /\ \/ fields[4] = "-"
               \/ /\ Len(fields[4]) = 2
                  /\ InList(SubSeq(fields[4], 1, 1), FileLetters)
                  /\ SubSeq(fields[4], 2, 2)
                         = (IF current_player = "B" THEN "3" ELSE "6")
            /\ IsNumeral(fields[5]) /\ numeral_value(fields[5]) >= 0
            /\ IsNumeral(fields[6]) /\ numeral_value(fields[6]) >= 1

\* C27's case: after a white pawn's double step the text names a target
\* on rank 3 with Black to move, has lost a castling letter, and has a
\* rank with a digit between two letters.
C27_Witness ==
    /\ current_player = "B"
    /\ en_passant_target # NoSquare
    /\ SubSeq(str_split(get_fen, " ")[4], 2, 2) = "3"
    /\ str_split(get_fen, " ")[3] \notin {"KQkq", "-"}
    /\ \E r \in 1 .. 8 :
           \E s \in {str_split(str_split(get_fen, " ")[1], "/")[r]} :
               \E i \in 2 .. Len(s) - 1 :
                   /\ IsDigit(SubSeq(s, i, i))
                   /\ SubSeq(s, i - 1, i - 1) \in PieceLetters
                   /\ SubSeq(s, i + 1, i + 1) \in PieceLetters

\* C28: a process_move call whose from square or to square has a
\* coordinate off the board returns False and leaves the board, the move
\* history, the side to move, the castling rights, the en-passant target,
\* the clocks and the game-over message as they were.
C28_OffBoardCallRejected ==
    [][calls_left' = calls_left - 1 =>
       \A legal_moves \in
              {get_all_legal_moves_for_player(Self, current_player)} :
           \A input \in OffBoardCalls :
               /\ ~InRange(input[1][1], input[1][2])
                  \/ ~InRange(input[2][1], input[2][2])
               /\ process_move(input[1], input[2], input[3], legal_moves,
                               is_in_check(current_player, board))
               => /\ ret' = "False"
                  /\ UNCHANGED <<board, move_history, current_player,
                                 castling_rights, en_passant_target,
                                 halfmove_clock, fullmove_number,
                                 game_over_message>>]_vars

\* C28's case: with an en-passant target pending the caller named a piece
\* of the side to move and a to square off the board; the call returned
\* False as an illegal move and the target is still pending.
C28_Witness ==
    /\ calls_left = MaxCalls - 1
    /\ ret = "False"
    /\ status_message = "Illegal move."
    /\ en_passant_target # NoSquare
    /\ reads = << >>

\* C29: every query answers for a square off the board as for no square:
\* get_piece returns no piece, is_square_attacked returns false for either
\* attacker color, and needs_promotion with from off the board returns
\* false.
C29_OffBoardIsNoSquare ==
    \A i \in 1 .. Len(reads) :
        /\ reads[i].op = "get_piece"
           /\ ~InRange(reads[i].args[1], reads[i].args[2])
           => reads[i].result = NoPiece
        /\ reads[i].op = "is_square_attacked"
           /\ ~InRange(reads[i].args[1], reads[i].args[2])
           => ~reads[i].result
        /\ reads[i].op = "needs_promotion"
           /\ ~InRange(reads[i].args[1][1], reads[i].args[1][2])
           => ~reads[i].result

\* The kinds of piece.
Kinds == {"P", "R", "N", "B", "Q", "K"}

\* The squares of a grid that hold a King of the color.
KingSquares(board_state, color) ==
    {sq \in Squares : board_state[sq[1]][sq[2]].kind = "K"
                      /\ board_state[sq[1]][sq[2]].color = color}

\* C30: every cell holds no piece or one piece; a successful move leaves
\* the cell it started from empty, the mover with as many pieces on the
\* grid as before and the opponent with as many, or one fewer when a piece
\* was captured, so that no piece stands on two cells; and the grid holds
\* exactly one King of each color.
C30_OnePiecePerCellOneKingPerColor ==
    /\ [](/\ \A sq \in Squares :
                 \/ board[sq[1]][sq[2]] = NoPiece
                 \/ /\ board[sq[1]][sq[2]].kind \in Kinds
                    /\ board[sq[1]][sq[2]].color \in {"W", "B"}
          /\ \A color \in {"W", "B"} :
                 /\ Cardinality(KingSquares(board, color)) = 1
                 /\ PieceCount(board, color) <= 16)
    /\ [][ret' = "True" =>
              /\ board'[last_move'.from[1]][last_move'.from[2]] = NoPiece
              /\ PieceCount(board', current_player)
                     = PieceCount(board, current_player)
              /\ PieceCount(board', opponent(current_player))
                     = PieceCount(board, opponent(current_player))
                       - (IF last_move'.captured = NoPiece THEN 0 ELSE 1)
              /\ last_move'.captured.kind # "K"
              /\ last_move'.was_castling =>
                     board'[last_move'.from[1]]
                           [IF last_move'.to[2] > 4 THEN 7 ELSE 0] = NoPiece]_vars

\* C30's case: a pawn has just been promoted with a capture on the
\* opponent's back rank; the mover still has sixteen pieces, seven of them
\* pawns, and each color its one King.
C30_Witness ==
    /\ ret = "True"
    /\ last_move.piece.kind \in {"Q", "R", "B", "N"}
    /\ PawnCount(board, last_move.piece.color) = 7
    /\ PieceCount(board, last_move.piece.color) = 16
    /\ last_move.from[1] \in {1, 6}
    /\ last_move.to[1] \in {0, 7}
    /\ last_move.captured # NoPiece
    /\ Cardinality(KingSquares(board, "W")) = 1
    /\ Cardinality(KingSquares(board, "B")) = 1
    /\ PieceCount(board, "W") + PieceCount(board, "B") < 32

\* C31: a successful move of the King by two files leaves the Rook of the
\* corner the King moved toward (file 7 kingside, file 0 queenside, on the
\* King's rank) on the square the King passed over, that corner empty, the
\* King on its destination, and King and Rook marked as moved.
C31_CastlingMovesRook ==
    [][ret' = "True"
       /\ MovedPiece.kind = "K"
       /\ Abs(last_move'.to[2] - last_move'.from[2]) = 2 =>
          LET r == last_move'.from[1]
              c1 == last_move'.from[2]
              c2 == last_move'.to[2]
              corner == IF c2 > c1 THEN 7 ELSE 0
              passed == IF c2 > c1 THEN c1 + 1 ELSE c1 - 1
          IN  /\ last_move'.to[1] = r
              /\ board[r][corner].kind = "R"
              /\ board[r][corner].color = current_player
              /\ board'[r][passed] =
                     [kind |-> "R", color |-> current_player,
                      has_moved |-> TRUE]
              /\ Abs(passed - c2) = 1
              /\ board'[r][corner] = NoPiece
              /\ board'[r][c1] = NoPiece
              /\ board'[r][c2] =
                     [kind |-> "K", color |-> current_player,
                      has_moved |-> TRUE]
              /\ \A sq \in Squares :
                     sq[1] # r \/ sq[2] \notin {c1, c2, corner, passed}
                     => board'[sq[1]][sq[2]] = board[sq[1]][sq[2]]]_vars

\* C31's case: White has just castled queenside; the Rook of a1 stands on
\* d1, the King on c1, and a1 and e1 are empty.
C31_Witness ==
    /\ ret = "True"
    /\ last_move.from = <<7, 4>>
    /\ last_move.to = <<7, 2>>
    /\ board[7][3] = [kind |-> "R", color |-> "W", has_moved |-> TRUE]
    /\ board[7][2] = [kind |-> "K", color |-> "W", has_moved |-> TRUE]
    /\ board[7][0] = NoPiece
    /\ board[7][4] = NoPiece

\* The sign of an integer.
Sign(n) == IF n > 0 THEN 1 ELSE IF n < 0 THEN -1 ELSE 0

\* Every cell strictly between two cells of one row, column or diagonal of
\* the grid is empty.
ClearBetween(b, r, c, r_target, c_target) ==
    LET dr == r_target - r
        dc == c_target - c
        n == IF Abs(dr) > Abs(dc) THEN Abs(dr) ELSE Abs(dc)
    IN  \A k \in 1 .. n - 1 : b[r + k * Sign(dr)][c + k * Sign(dc)] = NoPiece

\* The rules of chess for the piece on (r, c) attacking a target cell: a
\* Pawn its two forward diagonal cells, a King its eight neighbours, a
\* Knight its eight offsets, a Rook, Bishop or Queen along a clear row,
\* column or diagonal.
AttacksByRule(b, r, c, r_target, c_target) ==
    LET piece == b[r][c]
        dr == r_target - r
        dc == c_target - c
        straight == (dr = 0 \/ dc = 0) /\ (dr # 0 \/ dc # 0)
                    /\ ClearBetween(b, r, c, r_target, c_target)
        diagonal == Abs(dr) = Abs(dc) /\ dr # 0
                    /\ ClearBetween(b, r, c, r_target, c_target)
    IN  CASE piece.kind = "P" ->
                 dr = (IF piece.color = "W" THEN -1 ELSE 1) /\ Abs(dc) = 1
          [] piece.kind = "K" ->
                 Abs(dr) <= 1 /\ Abs(dc) <= 1 /\ (dr # 0 \/ dc # 0)
          [] piece.kind = "N" -> {Abs(dr), Abs(dc)} = {1, 2}
          [] piece.kind = "R" -> straight
          [] piece.kind = "B" -> diagonal
          [] piece.kind = "Q" -> straight \/ diagonal
          [] OTHER -> FALSE

\* C32: for a target square of the board that is empty or holds a piece
\* not of the attacker color, is_square_attacked is true exactly when some
\* piece of the attacker color attacks the square by the rules of chess: a
\* Pawn only diagonally forward, never by its forward steps.
C32_AttackedIffAttackedByRule ==
    \A attacker_color \in {"W", "B"} :
        \A target \in Squares :
            board[target[1]][target[2]].color # attacker_color
            => (is_square_attacked(target[1], target[2], attacker_color, board)
                <=> \E sq \in Squares :
                        /\ board[sq[1]][sq[2]].color = attacker_color
                        /\ AttacksByRule(board, sq[1], sq[2], target[1],
                                         target[2]))

\* C32's case: a white pawn stands on e4 with e5 empty; e5, the square it
\* can step to, is not attacked by White, d5 beside it is, and a4 on the
\* column of the Rook on a1 is not, the pawn on a2 standing between.
C32_Witness ==
    /\ board[4][4] = [kind |-> "P", color |-> "W", has_moved |-> TRUE]
    /\ board[3][4] = NoPiece
    /\ InList(<<3, 4>>,
              Pawn_get_possible_moves(board[4][4], 4, 4, board, NoSquare))
    /\ ~is_square_attacked(3, 4, "W", board)
    /\ board[3][3] = NoPiece
    /\ is_square_attacked(3, 3, "W", board)
    /\ board[7][0].kind = "R" /\ board[6][0].kind = "P"
    /\ board[4][0] = NoPiece
    /\ ~is_square_attacked(4, 0, "W", board)

\* C33: every call of process_move and of get_all_legal_moves_for_player
\* returns, and while it runs no function is entered again before it has
\* returned: King.get_possible_moves calls can_castle, can_castle calls
\* is_in_check and is_square_attacked, and neither of these calls back
\* into King.get_possible_moves or can_castle; the calls in progress never
\* number more than nine.
C33_CallsReturnWithoutReentry ==
    /\ [](\A i, j \in 1 .. Len(call_stack) :
              i # j => call_stack[i].fn # call_stack[j].fn)
    /\ [](Len(call_stack) <= 9)
    /\ (call_stack # << >>) ~> (call_stack = << >>)

\* C33's case: process_move is generating the legal moves and the King's
\* move list has called can_castle, which has called is_in_check, which
\* has called is_square_attacked, which is reading a Queen's move list.
C33_Witness ==
    /\ Len(call_stack) = 8
    /\ call_stack[1].fn = "process_move"
    /\ call_stack[4].fn = "King.get_possible_moves"
    /\ call_stack[5].fn = "can_castle"
    /\ call_stack[6].fn = "is_in_check"
    /\ call_stack[7].fn = "is_square_attacked"
    /\ call_stack[8].fn = "Queen.get_possible_moves"

\* C34: after a successful move that leaves the game going, status_message
\* names the new side to move and says "Check!" exactly when that side's
\* King is attacked on the board as the move left it; after a move that
\* ends the game status_message equals game_over_message.
C34_StatusAnnouncesCheck ==
    [][ret' = "True" =>
          IF game_over_message' = NoMessage
          THEN status_message' =
                   current_player' \o "'s turn."
                   \o (IF is_in_check(current_player', board')
                       THEN " Check!" ELSE "")
          ELSE status_message' = game_over_message']_vars

\* C34's case: a move has just given check without ending the game, and
\* the status names the side in check.
C34_Witness ==
    /\ ret = "True"
    /\ game_over_message = NoMessage
    /\ is_in_check(current_player, board)
    /\ status_message = current_player \o "'s turn. Check!"
    /\ Len(move_history) > 4

SameOccupancy(b1, b2) ==
    \A sq \in Squares :
        LET p1 == b1[sq[1]][sq[2]]
            p2 == b2[sq[1]][sq[2]]
        IN  /\ (p1 = NoPiece) = (p2 = NoPiece)
            /\ p1 # NoPiece => p1.color = p2.color

\* C36: for every legal move of the side to move, and every promotion
\* choice, the scratch board of the legality filter and the grid
\* Board.make_move leaves have pieces on the same cells, of the same colors
\* (the castling Rook's move and the en-passant removal included).
C36_ScratchBoardAgreesWithMakeMove ==
    \A legal_moves \in {get_all_legal_moves_for_player(Self, current_player)} :
        \A i \in 1 .. Len(legal_moves) :
            \A promotion_choice_char \in PromotionChoices :
                SameOccupancy(
                    sim_board_state(Self, legal_moves[i][1], legal_moves[i][2]),
                    make_move(board, legal_moves[i][1], legal_moves[i][2],
                              promotion_choice_char).board)

\* C36's case: an en-passant capture is a legal move of the side to move,
\* and on the scratch board the passed pawn's cell is empty.
C36_Witness ==
    /\ en_passant_target # NoSquare
    /\ \E from_sq \in Squares :
           /\ board[from_sq[1]][from_sq[2]].kind = "P"
           /\ InList(<<from_sq, en_passant_target>>,
                     get_all_legal_moves_for_player(Self, current_player))
           /\ board[from_sq[1]][en_passant_target[2]].kind = "P"
           /\ sim_board_state(Self, from_sq, en_passant_target)
                  [from_sq[1]][en_passant_target[2]] = NoPiece

\* The rank a pawn of the color starts on.
PawnStartRow(color) == IF color = "W" THEN 6 ELSE 1

\* The squares of the grid that hold a pawn.
PawnSquares == {sq \in Squares : board[sq[1]][sq[2]].kind = "P"}

\* C37: every pawn whose has_moved is false stands on its starting rank
\* (row 6 for White, row 1 for Black), and Pawn.get_possible_moves offers a
\* pawn the advance of two squares only from that rank and only with both
\* squares ahead empty.
C37_UnmovedPawnOnStartingRank ==
    \A sq \in PawnSquares :
        LET pawn == board[sq[1]][sq[2]]
            direction == IF pawn.color = "W" THEN -1 ELSE 1
            two_ahead == <<sq[1] + 2 * direction, sq[2]>>
        IN  /\ ~pawn.has_moved => sq[1] = PawnStartRow(pawn.color)
            /\ InList(two_ahead,
                      Pawn_get_possible_moves(pawn, sq[1], sq[2], board,
                                              en_passant_target))
               => /\ sq[1] = PawnStartRow(pawn.color)
                  /\ board[sq[1] + direction][sq[2]] = NoPiece
                  /\ board[two_ahead[1]][two_ahead[2]] = NoPiece

\* C37's case: a pawn that has moved one square has two empty squares ahead
\* and is not offered the advance of two squares, while a pawn on its
\* starting rank is.
C37_Witness ==
    /\ \E sq \in PawnSquares :
           LET pawn == board[sq[1]][sq[2]]
               direction == IF pawn.color = "W" THEN -1 ELSE 1
           IN  /\ pawn.has_moved
               /\ sq[1] = PawnStartRow(pawn.color) + direction
               /\ board[sq[1] + direction][sq[2]] = NoPiece
               /\ board[sq[1] + 2 * direction][sq[2]] = NoPiece
               /\ ~InList(<<sq[1] + 2 * direction, sq[2]>>,
                          Pawn_get_possible_moves(pawn, sq[1], sq[2], board,
                                                  en_passant_target))
    /\ \E sq \in PawnSquares :
           LET pawn == board[sq[1]][sq[2]]
               direction == IF pawn.color = "W" THEN -1 ELSE 1
           IN  /\ ~pawn.has_moved
               /\ InList(<<sq[1] + 2 * direction, sq[2]>>,
                         Pawn_get_possible_moves(pawn, sq[1], sq[2], board,
                                                 en_passant_target))

\* C38: no pawn stands on row 0 or row 7.
C38_NoPawnOnLastRanks ==
    \A c \in Rows : board[0][c].kind # "P" /\ board[7][c].kind # "P"

\* C38's case: a White pawn has just moved from row 1 onto row 0, where a
\* White Knight stands in its place, the third on the board.
C38_Witness ==
    /\ ret = "True"
    /\ move_history # << >>
    /\ last_move.from[1] = 1
    /\ last_move.to[1] = 0
    /\ board[0][last_move.to[2]] =
           [kind |-> "N", color |-> "W", has_moved |-> TRUE]
    /\ Cardinality({sq \in Squares :
                       board[sq[1]][sq[2]].kind = "N"
                       /\ board[sq[1]][sq[2]].color = "W"}) = 3

\* The file of the Rook's home corner on a side.
CornerFile(side) == IF side = "K" THEN 7 ELSE 0

\* The letter get_fen writes for the right of the color on the side.
RightLetter(color, side) ==
    IF color = "W" THEN side ELSE IF side = "K" THEN "k" ELSE "q"

\* Whether the color's King stands unmoved on its home square and a Rook of
\* the color unmoved on the side's home corner.
KingAndRookAtHome(color, side) ==
    /\ board[HomeRow(color)][4] =
           [kind |-> "K", color |-> color, has_moved |-> FALSE]
    /\ board[HomeRow(color)][CornerFile(side)] =
           [kind |-> "R", color |-> color, has_moved |-> FALSE]

\* C39: a castling right that is set has the color's King unmoved on its
\* home square and a Rook of the color unmoved on the side's corner, and
\* the castling field of get_fen() holds a right's letter only then.
C39_RightImpliesKingAndRookAtHome ==
    \A color \in {"W", "B"}, side \in {"K", "Q"} :
        /\ castling_rights[color][side] => KingAndRookAtHome(color, side)
        /\ \A field \in {str_split(get_fen, " ")[3]} :
               str_find(field, RightLetter(color, side), 1) <= Len(field)
               => KingAndRookAtHome(color, side)

\* C39's case: a Rook has left its kingside corner while the King stands
\* unmoved; the kingside right is cleared and its letter is missing from the
\* FEN, the queenside right is still set and its letter is there.
C39_Witness ==
    \E color \in {"W", "B"} :
        /\ board[HomeRow(color)][4] =
               [kind |-> "K", color |-> color, has_moved |-> FALSE]
        /\ board[HomeRow(color)][7] = NoPiece
        /\ ~castling_rights[color]["K"]
        /\ castling_rights[color]["Q"]
        /\ \A field \in {str_split(get_fen, " ")[3]} :
               /\ str_find(field, RightLetter(color, "K"), 1) > Len(field)
               /\ str_find(field, RightLetter(color, "Q"), 1) <= Len(field)

\* The caller's last query was reset_game().
JustReset == reads # << >> /\ reads[Len(reads)].op = "reset_game"

\* C40: reset_game() leaves the initial placement with every has_moved
\* false, White to move, all four castling rights set, no en-passant
\* target, halfmove clock 0, fullmove number 1, an empty move history and
\* game_over_message unset; and a process_move call made right after it
\* that is not accepted (True returned, the move made, Black to move) is
\* a call for none of the twenty legal moves.
C40_ResetRestoresFreshGame ==
    [][/\ Queried("reset_game") =>
              /\ board' = setup_pieces
              /\ \A sq \in Squares :
                     board'[sq[1]][sq[2]] # NoPiece =>
                         ~board'[sq[1]][sq[2]].has_moved
              /\ current_player' = "W"
              /\ \A color \in {"W", "B"}, side \in {"K", "Q"} :
                     castling_rights'[color][side]
              /\ en_passant_target' = NoSquare
              /\ halfmove_clock' = 0
              /\ fullmove_number' = 1
              /\ move_history' = << >>
              /\ game_over_message' = NoMessage
              /\ status_message' = "White's turn."
       /\ JustReset /\ calls_left' = calls_left - 1 =>
              \/ /\ ret' = "True"
                 /\ Len(move_history') = 1
                 /\ current_player' = "B"
                 /\ game_over_message' = NoMessage
              \/ \A legal_moves \in
                        {get_all_legal_moves_for_player(Self, current_player)} :
                     /\ Len(legal_moves) = 20
                     /\ \A i \in 1 .. Len(legal_moves) :
                            ~process_move(legal_moves[i][1], legal_moves[i][2],
                                          NoChoice, legal_moves,
                                          is_in_check(current_player, board))]_vars

\* C40's case: the caller read the FEN of a game ended by checkmate, with
\* Black's Queen on h4 and White to move, then called reset_game(); the
\* game is a fresh one, not over, and the caller has a call left.
C40_Witness ==
    /\ Len(reads) = 2
    /\ reads[1].op = "get_fen"
    /\ str_split(reads[1].result, " ")[1]
           = "rnb1kbnr/pppp1ppp/8/4p3/6Pq/5P2/PPPPP2P/RNBQKBNR"
    /\ JustReset
    /\ board = setup_pieces
    /\ game_over_message = NoMessage
    /\ Len(get_all_legal_moves_for_player(Self, current_player)) = 20
    /\ calls_left > 0

=============================================================================
